---------------------------- MODULE Spec2Model ----------------------------
(***************************************************************************)
(* A model of pych9329: the CH9329 packet codec (protocol.py), the evdev   *)
(* to USB HID translation tables (evdev_mapping.py), the enums and the     *)
(* keyboard state (models.py), the driver (driver.py) and the operation    *)
(* recorder with its serialisation (recorder.py).                          *)
(*                                                                         *)
(* Python values are modelled as follows.  A bytes object or a list is a   *)
(* sequence; a dict is a function from its keys; an enum member is the     *)
(* record [name, value]; None is the empty sequence and an optional value  *)
(* v is <<v>>.  The outcome of a call is the record [raised, value]:       *)
(* raised names the exception class ("None" when the call returned).       *)
(* time.time() is a number of milliseconds.                                *)
(***************************************************************************)
EXTENDS Integers, Sequences, FiniteSets, TLC

VARIABLES
    sent,           \* the bytes objects the adapter's send() accepted, in order
    _recorder,      \* CH9329Driver._recorder: TRUE when a recorder is attached
    _operations,    \* OperationRecorder._operations
    _recording,     \* OperationRecorder._recording
    _last_time,     \* OperationRecorder._last_time
    now,            \* what time.time() returns, in milliseconds
    state,          \* the KeyboardState the caller constructed last, if any
    file,           \* the JSON document at the recorder's file path, if any
    returned,       \* the list stop_recording returned to the caller last, if any
    called,         \* the driver calls that returned while recording, since the start
    replayed,       \* the calls the last replay made on its driver and on time.sleep
    send_calls,     \* how often the last call on the driver called the adapter's send()
    result          \* the last call made: [op, args, raised, value]

vars == <<sent, _recorder, _operations, _recording, _last_time,
          now, state, file, returned, called, replayed, send_calls, result>>

-----------------------------------------------------------------------------
(* Python helpers *)

None == <<>>

Some(v) == <<v>>

Return(v) == [raised |-> "None", value |-> v]

Raise(exception) == [raised |-> exception, value |-> None]

min(a, b) == IF a <= b THEN a ELSE b

max(a, b) == IF a >= b THEN a ELSE b

RECURSIVE sum(_)
sum(data) == IF data = <<>> THEN 0 ELSE data[1] + sum(Tail(data))

\* a | b on non-negative integers
RECURSIVE BitOr(_, _)
BitOr(a, b) ==
    IF a = 0 THEN b
    ELSE IF b = 0 THEN a
    ELSE max(a % 2, b % 2) + 2 * BitOr(a \div 2, b \div 2)

\* a dict literal: a later pair with the same key replaces an earlier one
dict(pairs) ==
    [k \in {pairs[i][1] : i \in DOMAIN pairs} |->
        LET last == CHOOSE i \in DOMAIN pairs :
                        /\ pairs[i][1] = k
                        /\ \A j \in DOMAIN pairs : pairs[j][1] = k => j <= i
        IN  pairs[last][2]]

\* bytes(list of int): ValueError unless every item is in range(256)
bytes(ints) ==
    IF \A i \in DOMAIN ints : ints[i] \in 0..255
    THEN Return(ints)
    ELSE Raise("ValueError")

-----------------------------------------------------------------------------
(* evdev.ecodes: the input-event codes the enums and the tables are keyed by *)
ecodes ==
    [BTN_LEFT |-> 272, BTN_RIGHT |-> 273, BTN_MIDDLE |-> 274, KEY_LEFTCTRL |-> 29,
     KEY_RIGHTCTRL |-> 97, KEY_LEFTSHIFT |-> 42, KEY_RIGHTSHIFT |-> 54, KEY_LEFTALT |-> 56,
     KEY_RIGHTALT |-> 100, KEY_LEFTMETA |-> 125, KEY_RIGHTMETA |-> 126, KEY_ENTER |-> 28,
     KEY_ESC |-> 1, KEY_BACKSPACE |-> 14, KEY_TAB |-> 15, KEY_SPACE |-> 57,
     KEY_GRAVE |-> 41, KEY_0 |-> 11, KEY_1 |-> 2, KEY_2 |-> 3,
     KEY_3 |-> 4, KEY_4 |-> 5, KEY_5 |-> 6, KEY_6 |-> 7,
     KEY_7 |-> 8, KEY_8 |-> 9, KEY_9 |-> 10, KEY_A |-> 30,
     KEY_B |-> 48, KEY_C |-> 46, KEY_D |-> 32, KEY_E |-> 18,
     KEY_F |-> 33, KEY_G |-> 34, KEY_H |-> 35, KEY_I |-> 23,
     KEY_J |-> 36, KEY_K |-> 37, KEY_L |-> 38, KEY_M |-> 50,
     KEY_N |-> 49, KEY_O |-> 24, KEY_P |-> 25, KEY_Q |-> 16,
     KEY_R |-> 19, KEY_S |-> 31, KEY_T |-> 20, KEY_U |-> 22,
     KEY_V |-> 47, KEY_W |-> 17, KEY_X |-> 45, KEY_Y |-> 21,
     KEY_Z |-> 44, KEY_MINUS |-> 12, KEY_EQUAL |-> 13, KEY_LEFTBRACE |-> 26,
     KEY_RIGHTBRACE |-> 27, KEY_BACKSLASH |-> 43, KEY_SEMICOLON |-> 39, KEY_APOSTROPHE |-> 40,
     KEY_COMMA |-> 51, KEY_DOT |-> 52, KEY_SLASH |-> 53, KEY_YEN |-> 124,
     KEY_RO |-> 89]

-----------------------------------------------------------------------------
(* models.py: the enums.  A class body is a sequence of <<name, value>>;  *)
(* a name whose value an earlier name already has is an alias of it.      *)

MAX_ROLLOVER_KEYS == 6

MouseButtonBody ==
    <<<<"BTN_LEFT", ecodes.BTN_LEFT>>, <<"BTN_RIGHT", ecodes.BTN_RIGHT>>,
      <<"BTN_MIDDLE", ecodes.BTN_MIDDLE>>>>

ModifierKeyBody ==
    <<<<"KEY_LEFTCTRL", ecodes.KEY_LEFTCTRL>>, <<"KEY_RIGHTCTRL", ecodes.KEY_RIGHTCTRL>>,
      <<"KEY_LEFTSHIFT", ecodes.KEY_LEFTSHIFT>>, <<"KEY_RIGHTSHIFT", ecodes.KEY_RIGHTSHIFT>>,
      <<"KEY_LEFTALT", ecodes.KEY_LEFTALT>>, <<"KEY_RIGHTALT", ecodes.KEY_RIGHTALT>>,
      <<"KEY_LEFTMETA", ecodes.KEY_LEFTMETA>>, <<"KEY_RIGHTMETA", ecodes.KEY_RIGHTMETA>>>>

KeyCodeBody ==
    <<<<"KEY_ENTER", ecodes.KEY_ENTER>>, <<"KEY_ESC", ecodes.KEY_ESC>>,
      <<"KEY_BACKSPACE", ecodes.KEY_BACKSPACE>>, <<"KEY_TAB", ecodes.KEY_TAB>>,
      <<"KEY_SPACE", ecodes.KEY_SPACE>>, <<"KEY_GRAVE", ecodes.KEY_GRAVE>>,
      <<"KEY_0", ecodes.KEY_0>>, <<"KEY_1", ecodes.KEY_1>>,
      <<"KEY_2", ecodes.KEY_2>>, <<"KEY_3", ecodes.KEY_3>>,
      <<"KEY_4", ecodes.KEY_4>>, <<"KEY_5", ecodes.KEY_5>>,
      <<"KEY_6", ecodes.KEY_6>>, <<"KEY_7", ecodes.KEY_7>>,
      <<"KEY_8", ecodes.KEY_8>>, <<"KEY_9", ecodes.KEY_9>>,
      <<"KEY_A", ecodes.KEY_A>>, <<"KEY_B", ecodes.KEY_B>>,
      <<"KEY_C", ecodes.KEY_C>>, <<"KEY_D", ecodes.KEY_D>>,
      <<"KEY_E", ecodes.KEY_E>>, <<"KEY_F", ecodes.KEY_F>>,
      <<"KEY_G", ecodes.KEY_G>>, <<"KEY_H", ecodes.KEY_H>>,
      <<"KEY_I", ecodes.KEY_I>>, <<"KEY_J", ecodes.KEY_J>>,
      <<"KEY_K", ecodes.KEY_K>>, <<"KEY_L", ecodes.KEY_L>>,
      <<"KEY_M", ecodes.KEY_M>>, <<"KEY_N", ecodes.KEY_N>>,
      <<"KEY_O", ecodes.KEY_O>>, <<"KEY_P", ecodes.KEY_P>>,
      <<"KEY_Q", ecodes.KEY_Q>>, <<"KEY_R", ecodes.KEY_R>>,
      <<"KEY_S", ecodes.KEY_S>>, <<"KEY_T", ecodes.KEY_T>>,
      <<"KEY_U", ecodes.KEY_U>>, <<"KEY_V", ecodes.KEY_V>>,
      <<"KEY_W", ecodes.KEY_W>>, <<"KEY_X", ecodes.KEY_X>>,
      <<"KEY_Y", ecodes.KEY_Y>>, <<"KEY_Z", ecodes.KEY_Z>>,
      <<"KEY_MINUS", ecodes.KEY_MINUS>>, <<"KEY_EQUAL", ecodes.KEY_EQUAL>>,
      <<"KEY_LEFTBRACE", ecodes.KEY_LEFTBRACE>>, <<"KEY_RIGHTBRACE", ecodes.KEY_RIGHTBRACE>>,
      <<"KEY_BACKSLASH", ecodes.KEY_BACKSLASH>>, <<"KEY_SEMICOLON", ecodes.KEY_SEMICOLON>>,
      <<"KEY_APOSTROPHE", ecodes.KEY_APOSTROPHE>>, <<"KEY_COMMA", ecodes.KEY_COMMA>>,
      <<"KEY_DOT", ecodes.KEY_DOT>>, <<"KEY_SLASH", ecodes.KEY_SLASH>>,
      <<"KEY_YEN", ecodes.KEY_YEN>>, <<"KEY_RO", ecodes.KEY_RO>>>>

MediaKeyBody ==
    <<<<"EJECT", <<2, 128, 0, 0>>>>, <<"CD_STOP", <<2, 64, 0, 0>>>>,
      <<"PREV_TRACK", <<2, 32, 0, 0>>>>, <<"NEXT_TRACK", <<2, 16, 0, 0>>>>,
      <<"PLAY_PAUSE", <<2, 8, 0, 0>>>>, <<"MUTE", <<2, 4, 0, 0>>>>,
      <<"VOLUME_DOWN", <<2, 2, 0, 0>>>>, <<"VOLUME_UP", <<2, 1, 0, 0>>>>>>

\* the members of an Enum class: one per distinct value, named by the first name
Enum(body) ==
    {[name |-> body[i][1], value |-> body[i][2]] :
        i \in {i \in DOMAIN body : \A j \in 1..(i - 1) : body[j][2] # body[i][2]}}

\* EnumClass[name]: the member a name (or an alias) denotes; KeyError otherwise
EnumGetItem(body, name) ==
    IF \E i \in DOMAIN body : body[i][1] = name
    THEN LET i == CHOOSE i \in DOMAIN body : body[i][1] = name
         IN  Return(CHOOSE m \in Enum(body) : m.value = body[i][2])
    ELSE Raise("KeyError")

MouseButton == Enum(MouseButtonBody)

ModifierKey == Enum(ModifierKeyBody)

KeyCode == Enum(KeyCodeBody)

MediaKey == Enum(MediaKeyBody)

-----------------------------------------------------------------------------
(* evdev_mapping.py *)

_EVDEV_TO_USB_HID_KEYBOARD ==
    dict(<<<<ecodes.KEY_A, 4>>, <<ecodes.KEY_B, 5>>, <<ecodes.KEY_C, 6>>,
           <<ecodes.KEY_D, 7>>, <<ecodes.KEY_E, 8>>, <<ecodes.KEY_F, 9>>,
           <<ecodes.KEY_G, 10>>, <<ecodes.KEY_H, 11>>, <<ecodes.KEY_I, 12>>,
           <<ecodes.KEY_J, 13>>, <<ecodes.KEY_K, 14>>, <<ecodes.KEY_L, 15>>,
           <<ecodes.KEY_M, 16>>, <<ecodes.KEY_N, 17>>, <<ecodes.KEY_O, 18>>,
           <<ecodes.KEY_P, 19>>, <<ecodes.KEY_Q, 20>>, <<ecodes.KEY_R, 21>>,
           <<ecodes.KEY_S, 22>>, <<ecodes.KEY_T, 23>>, <<ecodes.KEY_U, 24>>,
           <<ecodes.KEY_V, 25>>, <<ecodes.KEY_W, 26>>, <<ecodes.KEY_X, 27>>,
           <<ecodes.KEY_Y, 28>>, <<ecodes.KEY_Z, 29>>, <<ecodes.KEY_1, 30>>,
           <<ecodes.KEY_2, 31>>, <<ecodes.KEY_3, 32>>, <<ecodes.KEY_4, 33>>,
           <<ecodes.KEY_5, 34>>, <<ecodes.KEY_6, 35>>, <<ecodes.KEY_7, 36>>,
           <<ecodes.KEY_8, 37>>, <<ecodes.KEY_9, 38>>, <<ecodes.KEY_0, 39>>,
           <<ecodes.KEY_ENTER, 40>>, <<ecodes.KEY_ESC, 41>>, <<ecodes.KEY_BACKSPACE, 42>>,
           <<ecodes.KEY_TAB, 43>>, <<ecodes.KEY_SPACE, 44>>, <<ecodes.KEY_GRAVE, 53>>,
           <<ecodes.KEY_MINUS, 45>>, <<ecodes.KEY_EQUAL, 46>>, <<ecodes.KEY_LEFTBRACE, 47>>,
           <<ecodes.KEY_RIGHTBRACE, 48>>, <<ecodes.KEY_BACKSLASH, 49>>, <<ecodes.KEY_SEMICOLON, 51>>,
           <<ecodes.KEY_APOSTROPHE, 52>>, <<ecodes.KEY_COMMA, 54>>, <<ecodes.KEY_DOT, 55>>,
           <<ecodes.KEY_SLASH, 56>>, <<ecodes.KEY_RO, 135>>, <<ecodes.KEY_YEN, 137>>>>)

_EVDEV_TO_USB_HID_MOUSE ==
    dict(<<<<ecodes.BTN_LEFT, 1>>, <<ecodes.BTN_RIGHT, 2>>, <<ecodes.BTN_MIDDLE, 4>>>>)

\* mutant: no entry for KEY_RIGHTMETA
_EVDEV_TO_USB_HID_MODIFIER_seven ==
    dict(<<<<ecodes.KEY_LEFTCTRL, 1>>, <<ecodes.KEY_RIGHTCTRL, 16>>, <<ecodes.KEY_LEFTSHIFT, 2>>,
           <<ecodes.KEY_RIGHTSHIFT, 32>>, <<ecodes.KEY_LEFTALT, 4>>, <<ecodes.KEY_RIGHTALT, 64>>,
           <<ecodes.KEY_LEFTMETA, 8>>>>)

_EVDEV_TO_USB_HID_MODIFIER ==
    dict(<<<<ecodes.KEY_LEFTCTRL, 1>>, <<ecodes.KEY_RIGHTCTRL, 16>>, <<ecodes.KEY_LEFTSHIFT, 2>>,
           <<ecodes.KEY_RIGHTSHIFT, 32>>, <<ecodes.KEY_LEFTALT, 4>>, <<ecodes.KEY_RIGHTALT, 64>>,
           <<ecodes.KEY_LEFTMETA, 8>>, <<ecodes.KEY_RIGHTMETA, 128>>>>)

\* exceptions.py: raise UnsupportedEvdevCodeError(code); the exception keeps
\* the code in its attribute `code`
UnsupportedEvdevCodeError(code) ==
    [raised |-> "UnsupportedEvdevCodeError", value |-> [code |-> code]]

evdev_to_usb_hid_keyboard(evdev_code) ==
    IF evdev_code \notin DOMAIN _EVDEV_TO_USB_HID_KEYBOARD
    THEN UnsupportedEvdevCodeError(evdev_code)
    ELSE Return(_EVDEV_TO_USB_HID_KEYBOARD[evdev_code])

\* mutant: the error raised without the code
evdev_to_usb_hid_mouse_no_code(evdev_code) ==
    IF evdev_code \notin DOMAIN _EVDEV_TO_USB_HID_MOUSE
    THEN UnsupportedEvdevCodeError(0)
    ELSE Return(_EVDEV_TO_USB_HID_MOUSE[evdev_code])

evdev_to_usb_hid_mouse(evdev_code) ==
    IF evdev_code \notin DOMAIN _EVDEV_TO_USB_HID_MOUSE
    THEN UnsupportedEvdevCodeError(evdev_code)
    ELSE Return(_EVDEV_TO_USB_HID_MOUSE[evdev_code])

evdev_to_usb_hid_modifier(evdev_code) ==
    IF evdev_code \notin DOMAIN _EVDEV_TO_USB_HID_MODIFIER
    THEN UnsupportedEvdevCodeError(evdev_code)
    ELSE Return(_EVDEV_TO_USB_HID_MODIFIER[evdev_code])

is_supported_evdev_code(evdev_code) ==
    Return(\/ evdev_code \in DOMAIN _EVDEV_TO_USB_HID_KEYBOARD
           \/ evdev_code \in DOMAIN _EVDEV_TO_USB_HID_MOUSE
           \/ evdev_code \in DOMAIN _EVDEV_TO_USB_HID_MODIFIER)

-----------------------------------------------------------------------------
(* protocol.py: CH9329Protocol *)

_HEADER == <<87, 171>>      \* (0x57, 0xAB)

_ADDRESS == 0

_CMD_KEYBOARD == 2

_CMD_MEDIA == 3

_CMD_MOUSE_ABS == 4

_CMD_MOUSE_REL == 5

\* mutant: the checksum reduced modulo 255
_calculate_checksum_mod255(data) == sum(data) % 255

\* sum(data) & 0xFF
_calculate_checksum(data) == sum(data) % 256

\* mutant: the length byte counts the checksum too
_build_packet_long(command, data) ==
    LET packet == _HEADER \o <<_ADDRESS, command, Len(data) + 1>> \o data
        checksum == _calculate_checksum(packet)
    IN  bytes(Append(packet, checksum))

_build_packet(command, data) ==
    LET packet == _HEADER \o <<_ADDRESS, command, Len(data)>> \o data
        checksum == _calculate_checksum(packet)
    IN  bytes(Append(packet, checksum))

\* mutant: the key code in the reserved byte
build_keyboard_press_packet_reserved(modifier, keycode) ==
    LET data == <<modifier, keycode, 0, 0, 0, 0, 0, 0>>
    IN  _build_packet(_CMD_KEYBOARD, data)

build_keyboard_press_packet(modifier, keycode) ==
    LET data == <<modifier, 0, keycode, 0, 0, 0, 0, 0>>
    IN  _build_packet(_CMD_KEYBOARD, data)

build_keyboard_release_packet ==
    LET data == <<0, 0, 0, 0, 0, 0, 0, 0>>
    IN  _build_packet(_CMD_KEYBOARD, data)

\* mutant: the coordinates clamped to 4096
build_mouse_abs_packet_4096(button, x, y) ==
    LET x1 == max(0, min(4096, x))
        y1 == max(0, min(4096, y))
        x_low == x1 % 256
        x_high == (x1 \div 256) % 256
        y_low == y1 % 256
        y_high == (y1 \div 256) % 256
        data == <<2, button, x_low, x_high, y_low, y_high, 0>>
    IN  _build_packet(_CMD_MOUSE_ABS, data)

build_mouse_abs_packet(button, x, y) ==
    LET x1 == max(0, min(4095, x))
        y1 == max(0, min(4095, y))
        x_low == x1 % 256                   \* x & 0xFF
        x_high == (x1 \div 256) % 256       \* (x >> 8) & 0xFF
        y_low == y1 % 256
        y_high == (y1 \div 256) % 256
        data == <<2, button, x_low, x_high, y_low, y_high, 0>>
    IN  _build_packet(_CMD_MOUSE_ABS, data)

\* mutant: a negative value encoded as 255 + v
build_mouse_rel_packet_ones(button, x, y, scroll) ==
    LET x1 == max(-128, min(127, x))
        y1 == max(-128, min(127, y))
        scroll1 == max(-127, min(127, scroll))
        x_byte == IF x1 >= 0 THEN x1 ELSE 255 + x1
        y_byte == IF y1 >= 0 THEN y1 ELSE 255 + y1
        scroll_byte == IF scroll1 >= 0 THEN scroll1 ELSE 255 + scroll1
        data == <<1, button, x_byte, y_byte, scroll_byte>>
    IN  _build_packet(_CMD_MOUSE_REL, data)

\* mutant: scroll clamped like x and y, to -128
build_mouse_rel_packet_scroll128(button, x, y, scroll) ==
    LET x1 == max(-128, min(127, x))
        y1 == max(-128, min(127, y))
        scroll1 == max(-128, min(127, scroll))
        x_byte == IF x1 >= 0 THEN x1 ELSE 256 + x1
        y_byte == IF y1 >= 0 THEN y1 ELSE 256 + y1
        scroll_byte == IF scroll1 >= 0 THEN scroll1 ELSE 256 + scroll1
        data == <<1, button, x_byte, y_byte, scroll_byte>>
    IN  _build_packet(_CMD_MOUSE_REL, data)

build_mouse_rel_packet(button, x, y, scroll) ==
    LET x1 == max(-128, min(127, x))
        y1 == max(-128, min(127, y))
        scroll1 == max(-127, min(127, scroll))
        x_byte == IF x1 >= 0 THEN x1 ELSE 256 + x1
        y_byte == IF y1 >= 0 THEN y1 ELSE 256 + y1
        scroll_byte == IF scroll1 >= 0 THEN scroll1 ELSE 256 + scroll1
        data == <<1, button, x_byte, y_byte, scroll_byte>>
    IN  _build_packet(_CMD_MOUSE_REL, data)

build_media_press_packet(data0, data1, data2, data3) ==
    LET data == <<data0, data1, data2, data3>>
    IN  _build_packet(_CMD_MEDIA, data)

\* mutant: the release data all zero, as the keyboard's is
build_media_release_packet_zeros ==
    LET data == <<0, 0, 0, 0>>
    IN  _build_packet(_CMD_MEDIA, data)

build_media_release_packet ==
    LET data == <<2, 0, 0, 0>>
    IN  _build_packet(_CMD_MEDIA, data)

-----------------------------------------------------------------------------
(* models.py: KeyboardState *)

\* mutant: the bound checked one too high
KeyboardState_seven(modifiers, keys) ==
    IF Len(keys) > MAX_ROLLOVER_KEYS + 1
    THEN Raise("ValueError")
    ELSE Return([modifiers |-> modifiers, keys |-> keys])

\* KeyboardState(modifiers, keys): __post_init__ rejects more than 6 keys
KeyboardState(modifiers, keys) ==
    IF Len(keys) > MAX_ROLLOVER_KEYS
    THEN Raise("ValueError")
    ELSE Return([modifiers |-> modifiers, keys |-> keys])

\* MouseInput(buttons=..., x=..., y=..., scroll=...): a set of MouseButton and
\* three magnitudes, x and y in [-128, 127] and scroll in [-127, 127], rejected
\* out of range at construction
MouseInput(buttons, x, y, scroll) ==
    IF x < -128 \/ x > 127 \/ y < -128 \/ y > 127 \/ scroll < -127 \/ scroll > 127
    THEN Raise("ValidationError")
    ELSE Return([buttons |-> buttons, x |-> x, y |-> y, scroll |-> scroll])

\* the character U+0060, which a string of this notation cannot hold: written
\* by its name
GRAVE_ACCENT == "GRAVE ACCENT"

\* str(i) for i in range(10)
digit_characters == <<"0", "1", "2", "3", "4", "5", "6", "7", "8", "9">>

\* chr(char_code) for char_code in range(ord("a"), ord("z") + 1), each with
\* its char.upper()
letters ==
    << <<"a", "A">>, <<"b", "B">>, <<"c", "C">>, <<"d", "D">>, <<"e",
      "E">>, <<"f", "F">>, <<"g", "G">>, <<"h", "H">>, <<"i", "I">>,
      <<"j", "J">>, <<"k", "K">>, <<"l", "L">>, <<"m", "M">>, <<"n",
      "N">>, <<"o", "O">>, <<"p", "P">>, <<"q", "Q">>, <<"r", "R">>,
      <<"s", "S">>, <<"t", "T">>, <<"u", "U">>, <<"v", "V">>, <<"w",
      "W">>, <<"x", "X">>, <<"y", "Y">>, <<"z", "Z">>>>

\* _build_character_map(): character -> (evdev modifier, evdev keycode)
_build_character_map ==
    LET value_of(name) == EnumGetItem(KeyCodeBody, name).value.value
        KEY_LEFTSHIFT == EnumGetItem(ModifierKeyBody, "KEY_LEFTSHIFT").value.value
        symbols ==
            << <<"-", <<0, value_of("KEY_MINUS")>>>>,
              <<"=", <<0, value_of("KEY_EQUAL")>>>>,
              <<"[", <<0, value_of("KEY_LEFTBRACE")>>>>,
              <<"]", <<0, value_of("KEY_RIGHTBRACE")>>>>,
              <<";", <<0, value_of("KEY_SEMICOLON")>>>>,
              <<"'", <<0, value_of("KEY_APOSTROPHE")>>>>,
              <<GRAVE_ACCENT, <<0, value_of("KEY_GRAVE")>>>>,
              <<",", <<0, value_of("KEY_COMMA")>>>>,
              <<".", <<0, value_of("KEY_DOT")>>>>,
              <<"/", <<0, value_of("KEY_SLASH")>>>>,
              <<" ", <<0, value_of("KEY_SPACE")>>>>,
              <<"@", <<0, value_of("KEY_LEFTBRACE")>>>>,
              <<"^", <<0, value_of("KEY_EQUAL")>>>>,
              <<"\\", <<0, value_of("KEY_YEN")>>>>,
              <<"_", <<2, value_of("KEY_YEN")>>>>>>
        numbered ==
            [i \in 1..10 |->
                <<digit_characters[i], <<0, value_of("KEY_" \o digit_characters[i])>>>>]
        lettered ==
            [i \in 1..(2 * Len(letters)) |->
                LET pair == letters[(i + 1) \div 2]
                    keycode == value_of("KEY_" \o pair[2])
                IN  IF i % 2 = 1 THEN <<pair[1], <<0, keycode>>>>
                    ELSE <<pair[2], <<KEY_LEFTSHIFT, keycode>>>>]
        char_map == dict(symbols \o numbered \o lettered)
        shifted_symbols ==
            << <<"!", "1">>, <<"\"'", "2">>, <<"#", "3">>, <<"$", "4">>,
              <<"%", "5">>, <<"&", "6">>, <<"'", "7">>, <<"(", "8">>, <<")",
              "9">>, <<"~", "=">>, <<"|", "\\">>, <<"{", "[">>, <<"}",
              "]">>, <<"+", ";">>, <<"*", ":">>, <<"<", ",">>, <<">", ".">>,
              <<"?", "/">>>>
        present == SelectSeq(shifted_symbols, LAMBDA pair : pair[2] \in DOMAIN char_map)
        shifted ==
            [i \in 1..Len(present) |->
                <<present[i][1], <<KEY_LEFTSHIFT, char_map[present[i][2]][2]>>>>]
    IN  dict(symbols \o numbered \o lettered \o shifted)

_CHARACTER_MAP == _build_character_map

get_key_mapping(char) ==
    IF char \notin DOMAIN _CHARACTER_MAP
    THEN Raise("ValueError")
    ELSE Return(_CHARACTER_MAP[char])

-----------------------------------------------------------------------------
(* recorder.py: the operations *)

_MIN_DELAY_THRESHOLD == 1       \* 0.001 s, in milliseconds

KeyDownOperation(key, shift, ctrl, alt, windows) ==
    [class |-> "KeyDownOperation", key |-> key, shift |-> shift, ctrl |-> ctrl,
     alt |-> alt, windows |-> windows]

KeyUpOperation == [class |-> "KeyUpOperation"]

MouseButtonDownOperation(button) ==
    [class |-> "MouseButtonDownOperation", button |-> button]

MouseButtonUpOperation == [class |-> "MouseButtonUpOperation"]

MediaKeyDownOperation(key) == [class |-> "MediaKeyDownOperation", key |-> key]

MediaKeyUpOperation == [class |-> "MediaKeyUpOperation"]

MouseMoveAbsoluteOperation(x, y) ==
    [class |-> "MouseMoveAbsoluteOperation", x |-> x, y |-> y]

MouseMoveRelativeOperation(x, y) ==
    [class |-> "MouseMoveRelativeOperation", x |-> x, y |-> y]

MouseScrollOperation(amount) == [class |-> "MouseScrollOperation", amount |-> amount]

DelayOperation(seconds) == [class |-> "DelayOperation", seconds |-> seconds]

-----------------------------------------------------------------------------
(* json, as recorder.py uses it.  An object json.dumps accepts carries its   *)
(* Python type: [type, value].  A JSON text is the sequence of its tokens:   *)
(* the array of its objects, an object the sequence of its members           *)
(* <<key, token>>, a number the sequence of its characters.  A float is a    *)
(* number of milliseconds and its text is in seconds.                        *)

str(s) == [type |-> "str", value |-> s]

bool(b) == [type |-> "bool", value |-> b]

int(n) == [type |-> "int", value |-> n]

float(ms) == [type |-> "float", value |-> ms]

NoneType == [type |-> "NoneType"]

\* the empty list [], the one unhashable object the model has
list == [type |-> "list"]

Digit == <<"0", "1", "2", "3", "4", "5", "6", "7", "8", "9">>

RECURSIVE digits(_)
digits(n) ==
    IF n < 10 THEN <<Digit[n + 1]>>
    ELSE Append(digits(n \div 10), Digit[(n % 10) + 1])

\* int.__repr__
int___repr__(n) == IF n < 0 THEN <<"-">> \o digits(0 - n) ELSE digits(n)

\* the fraction of a second in milliseconds, without its trailing zeros
fraction(ms) ==
    IF ms = 0 THEN <<"0">>
    ELSE IF ms % 100 = 0 THEN <<Digit[(ms \div 100) + 1]>>
    ELSE IF ms % 10 = 0
         THEN <<Digit[(ms \div 100) + 1], Digit[((ms \div 10) % 10) + 1]>>
    ELSE <<Digit[(ms \div 100) + 1], Digit[((ms \div 10) % 10) + 1],
           Digit[(ms % 10) + 1]>>

\* float.__repr__: the shortest text that float() reads back as the same value
float___repr__(ms) ==
    LET a == IF ms < 0 THEN 0 - ms ELSE ms
    IN  (IF ms < 0 THEN <<"-">> ELSE <<>>)
            \o digits(a \div 1000) \o <<".">> \o fraction(a % 1000)

\* JSONEncoder: the token of one value
json_dumps_value(o) ==
    CASE o.type = "str" -> [json |-> "string", text |-> o.value]
      [] o.type = "bool" -> IF o.value THEN [json |-> "true"] ELSE [json |-> "false"]
      [] o.type = "int" -> [json |-> "number", text |-> int___repr__(o.value)]
      [] o.type = "float" -> [json |-> "number", text |-> float___repr__(o.value)]
      [] o.type = "NoneType" -> [json |-> "null"]
      [] o.type = "list" -> [json |-> "array"]

\* the members of one dict; json.loads does not depend on their order
RECURSIVE json_dumps_members(_, _)
json_dumps_members(data, keys) ==
    IF keys = {} THEN <<>>
    ELSE LET k == CHOOSE key \in keys : TRUE
         IN  <<<<k, json_dumps_value(data[k])>>>>
                 \o json_dumps_members(data, keys \ {k})

\* json.dumps(data, indent=2), data a list of dicts
json_dumps(data) ==
    [i \in DOMAIN data |-> json_dumps_members(data[i], DOMAIN data[i])]

\* the value of a sequence of decimal digits
RECURSIVE int_of(_)
int_of(text) ==
    IF text = <<>> THEN 0
    ELSE 10 * int_of(SubSeq(text, 1, Len(text) - 1))
             + ((CHOOSE d \in DOMAIN Digit : Digit[d] = text[Len(text)]) - 1)

\* JSONDecoder on a number: an int unless the text has a fraction
json_loads_number(text) ==
    LET negative == text[1] = "-"
        body == IF negative THEN Tail(text) ELSE text
        sign(n) == IF negative THEN 0 - n ELSE n
    IN  IF \E i \in DOMAIN body : body[i] = "."
        THEN LET dot == CHOOSE i \in DOMAIN body : body[i] = "."
                 frac == SubSeq(body, dot + 1, Len(body))
                 scale == CASE Len(frac) = 1 -> 100
                            [] Len(frac) = 2 -> 10
                            [] Len(frac) = 3 -> 1
             IN  float(sign(1000 * int_of(SubSeq(body, 1, dot - 1))
                                + scale * int_of(frac)))
        ELSE int(sign(int_of(body)))

\* JSONDecoder: the value of one token
json_loads_value(token) ==
    CASE token.json = "string" -> str(token.text)
      [] token.json = "true" -> bool(TRUE)
      [] token.json = "false" -> bool(FALSE)
      [] token.json = "number" -> json_loads_number(token.text)
      [] token.json = "null" -> NoneType
      [] token.json = "array" -> list

\* json.loads(text): a list of dicts; of two members with one key the later wins
json_loads(text) ==
    [i \in DOMAIN text |->
        dict([m \in DOMAIN text[i] |->
                 <<text[i][m][1], json_loads_value(text[i][m][2])>>])]

-----------------------------------------------------------------------------
(* recorder.py: to_dict and from_dict of the ten operations *)

\* data.get(key, default)
dict_get(data, key, default) == IF key \in DOMAIN data THEN data[key] ELSE default

\* Class[data[key]] of an enum: KeyError when the key or the member is missing
member_of(body, data, key) ==
    IF key \notin DOMAIN data THEN Raise("KeyError")
    ELSE IF data[key].type # "str" THEN Raise("KeyError")
    ELSE EnumGetItem(body, data[key].value)

\* cls(field=data[key]): KeyError when the key is missing
field_of(data, key) ==
    IF key \in DOMAIN data THEN Return(data[key].value) ELSE Raise("KeyError")

KeyDownOperation_to_dict(self) ==
    dict(<< <<"type", str("key_down")>>, <<"key", str(self.key.name)>>,
            <<"shift", bool(self.shift)>>, <<"ctrl", bool(self.ctrl)>>,
            <<"alt", bool(self.alt)>>, <<"windows", bool(self.windows)>> >>)

\* mutant: ctrl read from the "shift" member
KeyDownOperation_from_dict_shift(data) ==
    LET key == member_of(KeyCodeBody, data, "key")
    IN  IF key.raised # "None" THEN key
        ELSE Return(KeyDownOperation(key.value,
                        dict_get(data, "shift", bool(FALSE)).value,
                        dict_get(data, "shift", bool(FALSE)).value,
                        dict_get(data, "alt", bool(FALSE)).value,
                        dict_get(data, "windows", bool(FALSE)).value))

KeyDownOperation_from_dict(data) ==
    LET key == member_of(KeyCodeBody, data, "key")
    IN  IF key.raised # "None" THEN key
        ELSE Return(KeyDownOperation(key.value,
                        dict_get(data, "shift", bool(FALSE)).value,
                        dict_get(data, "ctrl", bool(FALSE)).value,
                        dict_get(data, "alt", bool(FALSE)).value,
                        dict_get(data, "windows", bool(FALSE)).value))

KeyUpOperation_to_dict(self) == dict(<< <<"type", str("key_up")>> >>)

KeyUpOperation_from_dict(_data) == Return(KeyUpOperation)

MouseButtonDownOperation_to_dict(self) ==
    dict(<< <<"type", str("mouse_button_down")>>,
            <<"button", str(self.button.name)>> >>)

MouseButtonDownOperation_from_dict(data) ==
    LET button == member_of(MouseButtonBody, data, "button")
    IN  IF button.raised # "None" THEN button
        ELSE Return(MouseButtonDownOperation(button.value))

MouseButtonUpOperation_to_dict(self) == dict(<< <<"type", str("mouse_button_up")>> >>)

MouseButtonUpOperation_from_dict(_data) == Return(MouseButtonUpOperation)

MediaKeyDownOperation_to_dict(self) ==
    dict(<< <<"type", str("media_key_down")>>, <<"key", str(self.key.name)>> >>)

MediaKeyDownOperation_from_dict(data) ==
    LET key == member_of(MediaKeyBody, data, "key")
    IN  IF key.raised # "None" THEN key
        ELSE Return(MediaKeyDownOperation(key.value))

MediaKeyUpOperation_to_dict(self) == dict(<< <<"type", str("media_key_up")>> >>)

MediaKeyUpOperation_from_dict(_data) == Return(MediaKeyUpOperation)

MouseMoveAbsoluteOperation_to_dict(self) ==
    dict(<< <<"type", str("mouse_move_absolute")>>,
            <<"x", int(self.x)>>, <<"y", int(self.y)>> >>)

MouseMoveAbsoluteOperation_from_dict(data) ==
    LET x == field_of(data, "x")
        y == field_of(data, "y")
    IN  IF x.raised # "None" THEN x
        ELSE IF y.raised # "None" THEN y
        ELSE Return(MouseMoveAbsoluteOperation(x.value, y.value))

MouseMoveRelativeOperation_to_dict(self) ==
    dict(<< <<"type", str("mouse_move_relative")>>,
            <<"x", int(self.x)>>, <<"y", int(self.y)>> >>)

MouseMoveRelativeOperation_from_dict(data) ==
    LET x == field_of(data, "x")
        y == field_of(data, "y")
    IN  IF x.raised # "None" THEN x
        ELSE IF y.raised # "None" THEN y
        ELSE Return(MouseMoveRelativeOperation(x.value, y.value))

MouseScrollOperation_to_dict(self) ==
    dict(<< <<"type", str("mouse_scroll")>>, <<"amount", int(self.amount)>> >>)

MouseScrollOperation_from_dict(data) ==
    LET amount == field_of(data, "amount")
    IN  IF amount.raised # "None" THEN amount
        ELSE Return(MouseScrollOperation(amount.value))

DelayOperation_to_dict(self) ==
    dict(<< <<"type", str("delay")>>, <<"seconds", float(self.seconds)>> >>)

DelayOperation_from_dict(data) ==
    LET seconds == field_of(data, "seconds")
    IN  IF seconds.raised # "None" THEN seconds
        ELSE Return(DelayOperation(seconds.value))

\* op.to_dict(), by the class of op
to_dict(op) ==
    CASE op.class = "KeyDownOperation" -> KeyDownOperation_to_dict(op)
      [] op.class = "KeyUpOperation" -> KeyUpOperation_to_dict(op)
      [] op.class = "MouseButtonDownOperation" -> MouseButtonDownOperation_to_dict(op)
      [] op.class = "MouseButtonUpOperation" -> MouseButtonUpOperation_to_dict(op)
      [] op.class = "MediaKeyDownOperation" -> MediaKeyDownOperation_to_dict(op)
      [] op.class = "MediaKeyUpOperation" -> MediaKeyUpOperation_to_dict(op)
      [] op.class = "MouseMoveAbsoluteOperation" -> MouseMoveAbsoluteOperation_to_dict(op)
      [] op.class = "MouseMoveRelativeOperation" -> MouseMoveRelativeOperation_to_dict(op)
      [] op.class = "MouseScrollOperation" -> MouseScrollOperation_to_dict(op)
      [] op.class = "DelayOperation" -> DelayOperation_to_dict(op)

\* operation_class.from_dict(data)
from_dict(operation_class, data) ==
    CASE operation_class = "KeyDownOperation" -> KeyDownOperation_from_dict(data)
      [] operation_class = "KeyUpOperation" -> KeyUpOperation_from_dict(data)
      [] operation_class = "MouseButtonDownOperation" ->
             MouseButtonDownOperation_from_dict(data)
      [] operation_class = "MouseButtonUpOperation" ->
             MouseButtonUpOperation_from_dict(data)
      [] operation_class = "MediaKeyDownOperation" -> MediaKeyDownOperation_from_dict(data)
      [] operation_class = "MediaKeyUpOperation" -> MediaKeyUpOperation_from_dict(data)
      [] operation_class = "MouseMoveAbsoluteOperation" ->
             MouseMoveAbsoluteOperation_from_dict(data)
      [] operation_class = "MouseMoveRelativeOperation" ->
             MouseMoveRelativeOperation_from_dict(data)
      [] operation_class = "MouseScrollOperation" -> MouseScrollOperation_from_dict(data)
      [] operation_class = "DelayOperation" -> DelayOperation_from_dict(data)

_OPERATION_TYPES ==
    dict(<< <<"key_down", "KeyDownOperation">>,
            <<"key_up", "KeyUpOperation">>,
            <<"mouse_button_down", "MouseButtonDownOperation">>,
            <<"mouse_button_up", "MouseButtonUpOperation">>,
            <<"media_key_down", "MediaKeyDownOperation">>,
            <<"media_key_up", "MediaKeyUpOperation">>,
            <<"mouse_move_absolute", "MouseMoveAbsoluteOperation">>,
            <<"mouse_move_relative", "MouseMoveRelativeOperation">>,
            <<"mouse_scroll", "MouseScrollOperation">>,
            <<"delay", "DelayOperation">> >>)

\* raise ValueError(f"Unknown operation type: {op_type}")
UnknownOperationType ==
    [raised |-> "ValueError", value |-> Some("Unknown operation type")]

\* _operation_from_dict(data).  op_type not in _OPERATION_TYPES hashes
\* op_type: a list raises TypeError, any other object that is not a key of
\* the dict (None, a bool, an int, another str) is not in it.
_operation_from_dict(data) ==
    LET op_type == dict_get(data, "type", NoneType)
    IN  IF op_type.type = "list" THEN Raise("TypeError")
        ELSE IF ~(op_type.type = "str" /\ op_type.value \in DOMAIN _OPERATION_TYPES)
        THEN UnknownOperationType
        ELSE from_dict(_OPERATION_TYPES[op_type.value], data)

\* [op.to_dict() for op in self._operations]
to_dicts(operations) == [i \in DOMAIN operations |-> to_dict(operations[i])]

\* [_operation_from_dict(op_data) for op_data in data]: the first exception
\* leaves the comprehension and no list is built
RECURSIVE operations_from_dicts(_)
operations_from_dicts(data) ==
    IF data = <<>> THEN Return(<<>>)
    ELSE LET first == _operation_from_dict(Head(data))
         IN  IF first.raised # "None" THEN first
             ELSE LET rest == operations_from_dicts(Tail(data))
                  IN  IF rest.raised # "None" THEN rest
                      ELSE Return(<<first.value>> \o rest.value)

\* OperationRecorder.save: the text written to filepath
OperationRecorder_save(operations) == json_dumps(to_dicts(operations))

\* OperationRecorder.load, contents the file at filepath if there is one
OperationRecorder_load(contents) ==
    IF contents = None THEN Raise("FileNotFoundError")
    ELSE operations_from_dicts(json_loads(contents[1]))

-----------------------------------------------------------------------------
(* The driver with its adapter and its recorder, as one value a method maps *)
(* to the value after it.  budget is the number of send() calls the adapter *)
(* still accepts before it raises; raised is the exception in flight, which *)
(* every later statement of the method passes through untouched.            *)

Self(budget) ==
    [sent |-> sent, budget |-> budget, _recorder |-> _recorder,
     _operations |-> _operations, _recording |-> _recording,
     _last_time |-> _last_time, raised |-> "None", calls |-> <<>>, slept |-> 0,
     send_calls |-> 0]

\* an exception leaves the method: nothing after it runs
Throw(self, exception) ==
    IF self.raised # "None" THEN self ELSE [self EXCEPT !.raised = exception]

\* mutant: a refused send is tried once more before the error is raised
_adapter_send_retry(self, packet) ==
    IF self.raised # "None" THEN self
    ELSE IF packet.raised # "None" THEN Throw(self, packet.raised)
    ELSE IF self.budget = 0
    THEN Throw([self EXCEPT !.send_calls = @ + 2], "AdapterError")
    ELSE [self EXCEPT !.sent = Append(@, packet.value), !.budget = @ - 1,
                      !.send_calls = @ + 1]

\* self._adapter.send(packet): CommunicationAdapter.send, which may raise
_adapter_send(self, packet) ==
    IF self.raised # "None" THEN self
    ELSE IF packet.raised # "None" THEN Throw(self, packet.raised)
    ELSE IF self.budget = 0
    THEN Throw([self EXCEPT !.send_calls = @ + 1], "AdapterError")
    ELSE [self EXCEPT !.sent = Append(@, packet.value), !.budget = @ - 1,
                      !.send_calls = @ + 1]

\* mutant: no `if not self._recording: return`
OperationRecorder_record_always(self, operation, current_time) ==
    LET delayed ==
            IF /\ self._last_time # None
               /\ current_time - self._last_time[1] > _MIN_DELAY_THRESHOLD
            THEN Append(self._operations,
                        DelayOperation(current_time - self._last_time[1]))
            ELSE self._operations
    IN  [self EXCEPT !._operations = Append(delayed, operation),
                     !._last_time = Some(current_time)]

\* mutant: delay >= _MIN_DELAY_THRESHOLD
OperationRecorder_record_ge(self, operation, current_time) ==
    IF ~self._recording THEN self
    ELSE LET delayed ==
                 IF /\ self._last_time # None
                    /\ current_time - self._last_time[1] >= _MIN_DELAY_THRESHOLD
                 THEN Append(self._operations,
                             DelayOperation(current_time - self._last_time[1]))
                 ELSE self._operations
         IN  [self EXCEPT !._operations = Append(delayed, operation),
                          !._last_time = Some(current_time)]

\* mutant: the delay appended after the operation
OperationRecorder_record_delay_last(self, operation, current_time) ==
    IF ~self._recording THEN self
    ELSE LET recorded == Append(self._operations, operation)
         IN  [self EXCEPT
                  !._operations =
                      IF /\ self._last_time # None
                         /\ current_time - self._last_time[1] > _MIN_DELAY_THRESHOLD
                      THEN Append(recorded,
                                  DelayOperation(current_time - self._last_time[1]))
                      ELSE recorded,
                  !._last_time = Some(current_time)]

\* mutant: self._operations.insert(0, operation)
OperationRecorder_record_front(self, operation, current_time) ==
    IF ~self._recording THEN self
    ELSE LET delayed ==
                 IF /\ self._last_time # None
                    /\ current_time - self._last_time[1] > _MIN_DELAY_THRESHOLD
                 THEN Append(self._operations,
                             DelayOperation(current_time - self._last_time[1]))
                 ELSE self._operations
         IN  [self EXCEPT !._operations = <<operation>> \o delayed,
                          !._last_time = Some(current_time)]

\* OperationRecorder.record(operation), the clock reading current_time
OperationRecorder_record(self, operation, current_time) ==
    IF ~self._recording THEN self
    ELSE LET delayed ==
                 IF /\ self._last_time # None
                    /\ current_time - self._last_time[1] > _MIN_DELAY_THRESHOLD
                 THEN Append(self._operations,
                             DelayOperation(current_time - self._last_time[1]))
                 ELSE self._operations
         IN  [self EXCEPT !._operations = Append(delayed, operation),
                          !._last_time = Some(current_time)]

\* if self._recorder is not None: self._recorder.record(operation)
\* (time.time() is now, later by what the call in progress has slept)
_recorder_record(self, operation) ==
    IF self.raised # "None" THEN self
    ELSE IF ~self._recorder THEN self
    ELSE OperationRecorder_record(self, operation, now + self.slept)

-----------------------------------------------------------------------------
(* driver.py: CH9329Driver, each method as a map of the driver *)

\* mutant: 0x01 for shift and 0x02 for ctrl
CH9329Driver_key_down_swapped(self, key, shift, ctrl, alt, windows) ==
    LET usb_hid_keycode == evdev_to_usb_hid_keyboard(key.value)
        m0 == 0
        m1 == IF shift THEN BitOr(m0, 1) ELSE m0
        m2 == IF ctrl THEN BitOr(m1, 2) ELSE m1
        m3 == IF alt THEN BitOr(m2, 4) ELSE m2
        modifier == IF windows THEN BitOr(m3, 8) ELSE m3
    IN  IF usb_hid_keycode.raised # "None"
        THEN Throw(self, usb_hid_keycode.raised)
        ELSE _recorder_record(
                 _adapter_send(self,
                     build_keyboard_press_packet(modifier, usb_hid_keycode.value)),
                 KeyDownOperation(key, shift, ctrl, alt, windows))

\* mutant: the operation recorded before the frame is sent
CH9329Driver_key_down_record_first(self, key, shift, ctrl, alt, windows) ==
    LET usb_hid_keycode == evdev_to_usb_hid_keyboard(key.value)
        m0 == 0
        m1 == IF ctrl THEN BitOr(m0, 1) ELSE m0
        m2 == IF shift THEN BitOr(m1, 2) ELSE m1
        m3 == IF alt THEN BitOr(m2, 4) ELSE m2
        modifier == IF windows THEN BitOr(m3, 8) ELSE m3
    IN  IF usb_hid_keycode.raised # "None"
        THEN Throw(self, usb_hid_keycode.raised)
        ELSE _adapter_send(
                 _recorder_record(self, KeyDownOperation(key, shift, ctrl, alt, windows)),
                 build_keyboard_press_packet(modifier, usb_hid_keycode.value))

CH9329Driver_key_down(self, key, shift, ctrl, alt, windows) ==
    LET usb_hid_keycode == evdev_to_usb_hid_keyboard(key.value)
        m0 == 0
        m1 == IF ctrl THEN BitOr(m0, 1) ELSE m0
        m2 == IF shift THEN BitOr(m1, 2) ELSE m1
        m3 == IF alt THEN BitOr(m2, 4) ELSE m2
        modifier == IF windows THEN BitOr(m3, 8) ELSE m3
    IN  IF usb_hid_keycode.raised # "None"
        THEN Throw(self, usb_hid_keycode.raised)
        ELSE _recorder_record(
                 _adapter_send(self,
                     build_keyboard_press_packet(modifier, usb_hid_keycode.value)),
                 KeyDownOperation(key, shift, ctrl, alt, windows))

CH9329Driver_key_up(self) ==
    _recorder_record(_adapter_send(self, build_keyboard_release_packet),
                     KeyUpOperation)

\* mutant: modifier_byte = ... instead of |=, so that one modifier wins
modifier_byte_of_one(modifiers) ==
    IF modifiers = {} THEN Return(0)
    ELSE evdev_to_usb_hid_modifier((CHOOSE m \in modifiers : TRUE).value)

\* modifier_byte |= evdev_to_usb_hid_modifier(modifier_key.value), over a set
RECURSIVE modifier_byte_of(_)
modifier_byte_of(modifiers) ==
    IF modifiers = {} THEN Return(0)
    ELSE LET modifier_key == CHOOSE m \in modifiers : TRUE
             bit == evdev_to_usb_hid_modifier(modifier_key.value)
             rest == modifier_byte_of(modifiers \ {modifier_key})
         IN  IF bit.raised # "None" THEN bit
             ELSE IF rest.raised # "None" THEN rest
             ELSE Return(BitOr(rest.value, bit.value))

\* [evdev_to_usb_hid_keyboard(key.value) for key in keys]
RECURSIVE usb_hid_keys_of(_)
usb_hid_keys_of(keys) ==
    IF keys = <<>> THEN Return(<<>>)
    ELSE LET code == evdev_to_usb_hid_keyboard(Head(keys).value)
             rest == usb_hid_keys_of(Tail(keys))
         IN  IF code.raised # "None" THEN code
             ELSE IF rest.raised # "None" THEN rest
             ELSE Return(<<code.value>> \o rest.value)

\* while len(usb_hid_keys) < MAX_ROLLOVER_KEYS: usb_hid_keys.append(0x00)
RECURSIVE pad_keys(_)
pad_keys(usb_hid_keys) ==
    IF Len(usb_hid_keys) < MAX_ROLLOVER_KEYS
    THEN pad_keys(Append(usb_hid_keys, 0))
    ELSE usb_hid_keys

\* the packet send_keyboard_state builds inline from the modifier byte and the
\* translated keys: padding, data, header, length, checksum
keyboard_state_packet(modifier_byte, usb_hid_keys) ==
    LET data == <<modifier_byte, 0>> \o pad_keys(usb_hid_keys)
        packet == <<87, 171, 0, 2, Len(data)>> \o data
        checksum == sum(packet) % 256
    IN  bytes(Append(packet, checksum))

\* mutant: the state sent is recorded as a key release
CH9329Driver_send_keyboard_state_recorded(self, keyboard_state) ==
    LET modifier_byte == modifier_byte_of(keyboard_state.modifiers)
        usb_hid_keys == usb_hid_keys_of(keyboard_state.keys)
    IN  IF modifier_byte.raised # "None" THEN Throw(self, modifier_byte.raised)
        ELSE IF usb_hid_keys.raised # "None" THEN Throw(self, usb_hid_keys.raised)
        ELSE _recorder_record(
                 _adapter_send(self,
                     keyboard_state_packet(modifier_byte.value, usb_hid_keys.value)),
                 KeyUpOperation)

CH9329Driver_send_keyboard_state(self, keyboard_state) ==
    LET modifier_byte == modifier_byte_of(keyboard_state.modifiers)
        usb_hid_keys == usb_hid_keys_of(keyboard_state.keys)
    IN  IF modifier_byte.raised # "None" THEN Throw(self, modifier_byte.raised)
        ELSE IF usb_hid_keys.raised # "None" THEN Throw(self, usb_hid_keys.raised)
        ELSE _adapter_send(self,
                 keyboard_state_packet(modifier_byte.value, usb_hid_keys.value))

\* mutant: the release before the press
CH9329Driver_press_key_up_first(self, key, shift, ctrl, alt, windows) ==
    CH9329Driver_key_down(CH9329Driver_key_up(self), key, shift, ctrl, alt, windows)

CH9329Driver_press_key(self, key, shift, ctrl, alt, windows) ==
    CH9329Driver_key_up(CH9329Driver_key_down(self, key, shift, ctrl, alt, windows))

\* the body of `for char in text:` once the mapping and the two translations
\* are made: the press packet sent, then the release packet sent
write_string_send(self, usb_hid_modifier, usb_hid_keycode) ==
    IF usb_hid_keycode.raised # "None" THEN Throw(self, usb_hid_keycode.raised)
    ELSE IF usb_hid_modifier.raised # "None" THEN Throw(self, usb_hid_modifier.raised)
    ELSE _adapter_send(
             _adapter_send(self,
                 build_keyboard_press_packet(usb_hid_modifier.value,
                                             usb_hid_keycode.value)),
             build_keyboard_release_packet)

\* evdev_modifier, evdev_keycode = get_key_mapping(char) and the translations
write_string_char(self, mapping) ==
    IF mapping.raised # "None" THEN Throw(self, mapping.raised)
    ELSE write_string_send(self,
             IF mapping.value[1] # 0
             THEN evdev_to_usb_hid_modifier(mapping.value[1])
             ELSE Return(0),
             evdev_to_usb_hid_keyboard(mapping.value[2]))

RECURSIVE CH9329Driver_write_string(_, _)
CH9329Driver_write_string(self, text) ==
    IF self.raised # "None" \/ text = <<>> THEN self
    ELSE CH9329Driver_write_string(
             write_string_char(self, get_key_mapping(Head(text))), Tail(text))

\* int(4096 * x / width): true division, then truncation toward zero
device_coordinate(x, width) ==
    IF 4096 * x >= 0 THEN (4096 * x) \div width ELSE -((-(4096 * x)) \div width)

CH9329Driver_mouse_move_absolute(self, x, y, _screen_width, _screen_height) ==
    LET device_x == device_coordinate(x, _screen_width)
        device_y == device_coordinate(y, _screen_height)
    IN  _recorder_record(
            _adapter_send(self, build_mouse_abs_packet(0, device_x, device_y)),
            MouseMoveAbsoluteOperation(x, y))

CH9329Driver_mouse_move_relative(self, x, y) ==
    _recorder_record(_adapter_send(self, build_mouse_rel_packet(0, x, y, 0)),
                     MouseMoveRelativeOperation(x, y))

CH9329Driver_mouse_button_down(self, button) ==
    LET usb_hid_button == evdev_to_usb_hid_mouse(button.value)
    IN  IF usb_hid_button.raised # "None"
        THEN Throw(self, usb_hid_button.raised)
        ELSE _recorder_record(
                 _adapter_send(self,
                     build_mouse_rel_packet(usb_hid_button.value, 0, 0, 0)),
                 MouseButtonDownOperation(button))

CH9329Driver_mouse_button_up(self) ==
    _recorder_record(_adapter_send(self, build_mouse_rel_packet(0, 0, 0, 0)),
                     MouseButtonUpOperation)

CH9329Driver_mouse_click(self, button) ==
    CH9329Driver_mouse_button_up(CH9329Driver_mouse_button_down(self, button))

CH9329Driver_mouse_scroll(self, amount) ==
    _recorder_record(_adapter_send(self, build_mouse_rel_packet(0, 0, 0, amount)),
                     MouseScrollOperation(amount))

\* button_byte |= evdev_to_usb_hid_mouse(button.value), over a set
RECURSIVE button_byte_of(_)
button_byte_of(buttons) ==
    IF buttons = {} THEN Return(0)
    ELSE LET button == CHOOSE b \in buttons : TRUE
             bit == evdev_to_usb_hid_mouse(button.value)
             rest == button_byte_of(buttons \ {button})
         IN  IF bit.raised # "None" THEN bit
             ELSE IF rest.raised # "None" THEN rest
             ELSE Return(BitOr(rest.value, bit.value))

\* mutant: the press and the release-all packet, as mouse_click sends them
CH9329Driver_send_mouse_state_click(self, mouse_state) ==
    LET button_byte == button_byte_of(mouse_state.buttons)
    IN  IF button_byte.raised # "None" THEN Throw(self, button_byte.raised)
        ELSE _adapter_send(
                 _adapter_send(self,
                     build_mouse_rel_packet(button_byte.value, mouse_state.x,
                                            mouse_state.y, mouse_state.scroll)),
                 build_mouse_rel_packet(0, 0, 0, 0))

CH9329Driver_send_mouse_state(self, mouse_state) ==
    LET button_byte == button_byte_of(mouse_state.buttons)
    IN  IF button_byte.raised # "None" THEN Throw(self, button_byte.raised)
        ELSE _adapter_send(self,
                 build_mouse_rel_packet(button_byte.value, mouse_state.x,
                                        mouse_state.y, mouse_state.scroll))

CH9329Driver_media_key_down(self, key) ==
    LET data0 == key.value[1]
        data1 == key.value[2]
        data2 == key.value[3]
        data3 == key.value[4]
    IN  _recorder_record(
            _adapter_send(self, build_media_press_packet(data0, data1, data2, data3)),
            MediaKeyDownOperation(key))

CH9329Driver_media_key_up(self) ==
    _recorder_record(_adapter_send(self, build_media_release_packet),
                     MediaKeyUpOperation)

CH9329Driver_press_media_key(self, key) ==
    CH9329Driver_media_key_up(CH9329Driver_media_key_down(self, key))

-----------------------------------------------------------------------------
(* Bounds and the inputs the specifications draw from *)

Margin == 2         \* how far past a valid range the codec's inputs reach

MaxKeys == 7        \* the longest key list a caller builds

MaxSent == 1        \* frames a run of Spec sends

MaxTime == 3        \* milliseconds a run of Spec lasts

Bytes == 0..255

ByteArgs == (0 - Margin)..(255 + Margin)

ByteSample == {0 - 1, 0, 2, 255, 256}

AbsArgs == (0 - Margin)..(4095 + Margin)

AbsSample == {0 - 1, 0, 256, 4095, 4096}

RelArgs == (0 - 128 - Margin)..(127 + Margin)

RelSample == {0 - 129, 0 - 128, 0 - 20, 0, 127, 128}

ButtonSample == {0, 7}

\* all sequences over S of length at most n
RECURSIVE SeqsUpTo(_, _)
SeqsUpTo(S, n) ==
    IF n = 0 THEN {<<>>}
    ELSE LET shorter == SeqsUpTo(S, n - 1)
         IN  shorter \cup {Append(s, x) : s \in {t \in shorter : Len(t) = n - 1}, x \in S}

\* the translated key lists the codec is tried on: native codes and a non-byte
KeyLists == SeqsUpTo({0, 4, 137, 256}, MAX_ROLLOVER_KEYS)

member(body, name) == EnumGetItem(body, name).value

KeySample == {member(KeyCodeBody, "KEY_A"), member(KeyCodeBody, "KEY_YEN")}

-----------------------------------------------------------------------------
(* The state after construction: CH9329Driver.__init__ with or without a   *)
(* recorder, OperationRecorder.__init__, a mock adapter that has received  *)
(* nothing.                                                                *)

Init ==
    /\ sent = <<>>
    /\ _recorder \in BOOLEAN
    /\ _operations = <<>>
    /\ _recording = FALSE
    /\ _last_time = None
    /\ now = 0
    /\ state = None
    /\ file = None
    /\ returned = None
    /\ called = <<>>
    /\ replayed = <<>>
    /\ send_calls = 0
    /\ result = [op |-> "__init__", args |-> <<>>, raised |-> "None", value |-> None]

\* mutant: return self._operations, the recorder's own list
list_itself(items) == [is_operations |-> TRUE, items |-> items]

\* self._operations.copy(): a new list object with the same items.  A list
\* the caller holds is [is_operations, items]: is_operations says that it is
\* the very object self._operations refers to.
list_copy(items) == [is_operations |-> FALSE, items |-> items]

\* the caller's list once self._operations has been appended to in place
seen_by_caller(held, operations) ==
    IF held # None /\ held[1].is_operations
    THEN Some([held[1] EXCEPT !.items = operations])
    ELSE held

\* the caller's list once self._operations = [] has bound the name to a new list
rebound(held) ==
    IF held # None THEN Some([held[1] EXCEPT !.is_operations = FALSE]) ELSE held

\* the methods of CH9329Driver
DriverMethods ==
    {"key_down", "key_up", "send_keyboard_state", "press_key", "write_string",
     "mouse_move_absolute", "mouse_move_relative", "mouse_button_down",
     "mouse_button_up", "mouse_click", "mouse_scroll", "send_mouse_state",
     "media_key_down", "media_key_up", "press_media_key"}

\* a pure function applied: only the call and its outcome are recorded
Applies(op, args, outcome) ==
    /\ result' = [op |-> op, args |-> args, raised |-> outcome.raised,
                  value |-> outcome.value]
    /\ UNCHANGED <<sent, _recorder, _operations, _recording, _last_time, now,
                   state, file, returned, called, replayed, send_calls>>

\* a method of the driver or the recorder called: the driver becomes `after`
Becomes(op, args, after, value) ==
    /\ sent' = after.sent
    /\ _operations' = after._operations
    /\ returned' = seen_by_caller(returned, after._operations)
    /\ called' = IF /\ op \in DriverMethods
                    /\ _recorder /\ _recording
                    /\ after.raised = "None"
                 THEN Append(called, [method |-> op, args |-> args, time |-> now])
                 ELSE called
    /\ _recording' = after._recording
    /\ _last_time' = after._last_time
    /\ result' = [op |-> op, args |-> args, raised |-> after.raised,
                  value |-> IF after.raised = "None" THEN value ELSE None]
    /\ send_calls' = after.send_calls
    /\ UNCHANGED <<_recorder, now, state, file, replayed>>

-----------------------------------------------------------------------------
(* The codec's builders, applied *)

build_keyboard_press(modifier, keycode) ==
    Applies("build_keyboard_press_packet", <<modifier, keycode>>,
            build_keyboard_press_packet(modifier, keycode))

build_keyboard_release ==
    Applies("build_keyboard_release_packet", <<>>, build_keyboard_release_packet)

build_mouse_abs(button, x, y) ==
    Applies("build_mouse_abs_packet", <<button, x, y>>,
            build_mouse_abs_packet(button, x, y))

build_mouse_rel(button, x, y, scroll) ==
    Applies("build_mouse_rel_packet", <<button, x, y, scroll>>,
            build_mouse_rel_packet(button, x, y, scroll))

build_media_press(data0, data1, data2, data3) ==
    Applies("build_media_press_packet", <<data0, data1, data2, data3>>,
            build_media_press_packet(data0, data1, data2, data3))

build_media_release ==
    Applies("build_media_release_packet", <<>>, build_media_release_packet)

build_keyboard_state(modifier_byte, usb_hid_keys) ==
    Applies("keyboard_state_packet", <<modifier_byte, usb_hid_keys>>,
            keyboard_state_packet(modifier_byte, usb_hid_keys))

\* no call has been made yet
Fresh == result.op = "__init__"

\* one builder applied once to arguments drawn from the input sets
NextCodec ==
    \/ /\ Fresh
       /\ \E modifier \in ByteArgs, keycode \in ByteArgs :
              build_keyboard_press(modifier, keycode)
    \/ Fresh /\ build_keyboard_release
    \/ /\ Fresh
       /\ \E button \in ButtonSample, x \in AbsArgs, y \in AbsSample :
              build_mouse_abs(button, x, y) \/ build_mouse_abs(button, y, x)
    \/ /\ Fresh
       /\ \E button \in ByteArgs, x \in RelSample, y \in RelSample, scroll \in RelSample :
              build_mouse_rel(button, x, y, scroll)
    \/ /\ Fresh
       /\ \E button \in ButtonSample, x \in RelArgs, y \in RelSample, scroll \in RelSample :
              \/ build_mouse_rel(button, x, y, scroll)
              \/ build_mouse_rel(button, y, x, scroll)
              \/ build_mouse_rel(button, y, scroll, x)
    \/ /\ Fresh
       /\ \E data0 \in ByteArgs, data1 \in ByteSample, data2 \in ByteSample,
             data3 \in ByteSample :
              \/ build_media_press(data0, data1, data2, data3)
              \/ build_media_press(data1, data0, data2, data3)
              \/ build_media_press(data1, data2, data0, data3)
              \/ build_media_press(data1, data2, data3, data0)
    \/ Fresh /\ build_media_release
    \/ /\ Fresh
       /\ \E modifier_byte \in ByteSample, usb_hid_keys \in KeyLists :
              build_keyboard_state(modifier_byte, usb_hid_keys)
    \/ /\ Fresh
       /\ \E modifier_byte \in ByteArgs, usb_hid_keys \in SeqsUpTo({4}, 1) :
              build_keyboard_state(modifier_byte, usb_hid_keys)

InitCodec == Init /\ ~_recorder

SpecCodec == InitCodec /\ [][NextCodec]_vars

-----------------------------------------------------------------------------
(* The recorder's methods and the passing of time *)

start_recording ==
    /\ _operations' = <<>>
    /\ returned' = rebound(returned)
    /\ called' = <<>>
    /\ _recording' = TRUE
    /\ _last_time' = Some(now)
    /\ result' = [op |-> "start_recording", args |-> <<>>, raised |-> "None",
                  value |-> None]
    /\ UNCHANGED <<sent, _recorder, now, state, file, replayed, send_calls>>

stop_recording ==
    /\ _recording' = FALSE
    /\ returned' = Some(list_copy(_operations))
    /\ result' = [op |-> "stop_recording", args |-> <<>>, raised |-> "None",
                  value |-> _operations]
    /\ UNCHANGED <<sent, _recorder, _operations, _last_time, now, state, file,
                   called, replayed, send_calls>>

\* OperationRecorder.record called by the recorder's owner
record(operation) ==
    Becomes("record", <<operation>>,
            OperationRecorder_record(Self(0), operation, now), None)

\* the caller appends to the list stop_recording returned
returned_append(operation) ==
    /\ returned # None
    /\ returned' = Some([returned[1] EXCEPT !.items = Append(@, operation)])
    /\ _operations' = IF returned[1].is_operations
                      THEN Append(_operations, operation)
                      ELSE _operations
    /\ result' = [op |-> "append", args |-> <<operation>>, raised |-> "None",
                  value |-> None]
    /\ UNCHANGED <<sent, _recorder, _recording, _last_time, now, state, file,
                   called, replayed, send_calls>>

\* a millisecond passes
Tick ==
    /\ now' = now + 1
    /\ UNCHANGED <<sent, _recorder, _operations, _recording, _last_time, state,
                   file, returned, called, replayed, send_calls, result>>

-----------------------------------------------------------------------------
(* The driver's methods, called on an adapter that accepts `budget` sends *)

_screen_width == 1920

_screen_height == 1080

key_down(key, shift, ctrl, alt, windows, budget) ==
    Becomes("key_down", <<key, shift, ctrl, alt, windows>>,
            CH9329Driver_key_down(Self(budget), key, shift, ctrl, alt, windows), None)

key_up(budget) ==
    Becomes("key_up", <<>>, CH9329Driver_key_up(Self(budget)), None)

\* KeyboardState(modifiers=..., keys=...), kept by the caller when it is valid
new_KeyboardState(modifiers, keys) ==
    LET made == KeyboardState(modifiers, keys)
    IN  /\ state' = IF made.raised = "None" THEN Some(made.value) ELSE state
        /\ result' = [op |-> "KeyboardState", args |-> <<modifiers, keys>>,
                      raised |-> made.raised, value |-> made.value]
        /\ UNCHANGED <<sent, _recorder, _operations, _recording, _last_time, now,
                       file, returned, called, replayed, send_calls>>

send_keyboard_state(budget) ==
    /\ state # None
    /\ Becomes("send_keyboard_state", <<state[1]>>,
               CH9329Driver_send_keyboard_state(Self(budget), state[1]), None)

press_key(key, shift, ctrl, alt, windows, budget) ==
    Becomes("press_key", <<key, shift, ctrl, alt, windows>>,
            CH9329Driver_press_key(Self(budget), key, shift, ctrl, alt, windows), None)

mouse_move_absolute(x, y, budget) ==
    Becomes("mouse_move_absolute", <<x, y>>,
            CH9329Driver_mouse_move_absolute(Self(budget), x, y, _screen_width,
                                             _screen_height), None)

mouse_move_relative(x, y, budget) ==
    Becomes("mouse_move_relative", <<x, y>>,
            CH9329Driver_mouse_move_relative(Self(budget), x, y), None)

mouse_button_down(button, budget) ==
    Becomes("mouse_button_down", <<button>>,
            CH9329Driver_mouse_button_down(Self(budget), button), None)

mouse_button_up(budget) ==
    Becomes("mouse_button_up", <<>>, CH9329Driver_mouse_button_up(Self(budget)), None)

mouse_click(button, budget) ==
    Becomes("mouse_click", <<button>>,
            CH9329Driver_mouse_click(Self(budget), button), None)

mouse_scroll(amount, budget) ==
    Becomes("mouse_scroll", <<amount>>,
            CH9329Driver_mouse_scroll(Self(budget), amount), None)

\* MouseInput(buttons=..., x=..., y=..., scroll=...)
new_MouseInput(buttons, x, y, scroll) ==
    LET made == MouseInput(buttons, x, y, scroll)
    IN  /\ result' = [op |-> "MouseInput", args |-> <<buttons, x, y, scroll>>,
                      raised |-> made.raised, value |-> made.value]
        /\ UNCHANGED <<sent, _recorder, _operations, _recording, _last_time, now,
                       state, file, returned, called, replayed, send_calls>>

\* driver.send_mouse_state(MouseInput(...)), on the state just constructed
send_mouse_state(budget) ==
    /\ result.op = "MouseInput"
    /\ result.raised = "None"
    /\ Becomes("send_mouse_state", <<result.value>>,
               CH9329Driver_send_mouse_state(Self(budget), result.value), None)

write_string(text, budget) ==
    Becomes("write_string", <<text>>,
            CH9329Driver_write_string(Self(budget), text), None)

media_key_down(key, budget) ==
    Becomes("media_key_down", <<key>>,
            CH9329Driver_media_key_down(Self(budget), key), None)

media_key_up(budget) ==
    Becomes("media_key_up", <<>>, CH9329Driver_media_key_up(Self(budget)), None)

press_media_key(key, budget) ==
    Becomes("press_media_key", <<key>>,
            CH9329Driver_press_media_key(Self(budget), key), None)

-----------------------------------------------------------------------------
(* SpecCall: one call of the driver, on arguments drawn from wide sets, made *)
(* right after construction or right after start_recording.                 *)

Flags == BOOLEAN \X BOOLEAN \X BOOLEAN \X BOOLEAN

ModifierSample ==
    {{}, {member(ModifierKeyBody, "KEY_LEFTSHIFT"), member(ModifierKeyBody, "KEY_RIGHTMETA")},
     ModifierKey}

\* the keyboard states a caller tries to construct
KeyboardStateArgs ==
    ((SUBSET ModifierKey) \X SeqsUpTo(KeySample, 1))
        \cup (ModifierSample \X SeqsUpTo(KeySample, MaxKeys))
        \cup ({{}} \X SeqsUpTo(KeyCode, 1))

\* the scroll amounts a caller tries to construct a mouse state with
MouseInputScrolls == {0 - 128, 0 - 127, 0, 3, 127, 128}

MaxText == 3        \* the longest text a caller writes

\* every character of the table and three that it lacks (the table's key of
\* two characters is no character of a text)
Characters == (DOMAIN _CHARACTER_MAP \ {"\"'"}) \cup {"*", ":", "\""}

TextSample == {"a", "A", "!", "_", "*"}

\* the texts a caller writes: a text is the sequence of its characters
Texts == {<<char>> : char \in Characters} \cup SeqsUpTo(TextSample, MaxText)

\* no driver call has been made yet
Ready == result.op \in {"__init__", "start_recording"}

NextCall ==
    \/ Fresh /\ start_recording
    \/ /\ Ready
       /\ \E key \in KeyCode, f \in Flags, budget \in 0..1 :
              key_down(key, f[1], f[2], f[3], f[4], budget)
    \/ Ready /\ \E budget \in 0..1 : key_up(budget)
    \/ /\ Ready
       /\ \E key \in KeySample, f \in Flags, budget \in 0..2 :
              press_key(key, f[1], f[2], f[3], f[4], budget)
    \/ Fresh /\ \E s \in KeyboardStateArgs : new_KeyboardState(s[1], s[2])
    \/ result.op = "KeyboardState" /\ \E budget \in 0..1 : send_keyboard_state(budget)
    \/ /\ Ready
       /\ \E x \in (0 - Margin)..(_screen_width + Margin), y \in {0 - 1, 0, 540, 1080, 1081},
             budget \in 0..1 :
              mouse_move_absolute(x, y, budget)
    \/ /\ Ready
       /\ \E x \in {0 - 1, 0, 960, 1920, 1921}, y \in (0 - Margin)..(_screen_height + Margin),
             budget \in 0..1 :
              mouse_move_absolute(x, y, budget)
    \/ /\ Ready
       /\ \E x \in RelArgs, y \in RelSample, budget \in 0..1 :
              mouse_move_relative(x, y, budget) \/ mouse_move_relative(y, x, budget)
    \/ Ready /\ \E button \in MouseButton, budget \in 0..1 : mouse_button_down(button, budget)
    \/ Ready /\ \E budget \in 0..1 : mouse_button_up(budget)
    \/ Ready /\ \E button \in MouseButton, budget \in 0..2 : mouse_click(button, budget)
    \/ Ready /\ \E amount \in RelArgs, budget \in 0..1 : mouse_scroll(amount, budget)
    \/ /\ Fresh
       /\ \E buttons \in SUBSET MouseButton, x \in RelSample, y \in {0 - 129, 0 - 5, 127},
             scroll \in MouseInputScrolls :
              new_MouseInput(buttons, x, y, scroll)
    \/ \E budget \in 0..2 : send_mouse_state(budget)
    \/ /\ Ready
       /\ \E text \in Texts, budget \in 0..(2 * MaxText) : write_string(text, budget)
    \/ Ready /\ \E key \in MediaKey, budget \in 0..1 : media_key_down(key, budget)
    \/ Ready /\ \E budget \in 0..1 : media_key_up(budget)
    \/ Ready /\ \E key \in MediaKey, budget \in 0..2 : press_media_key(key, budget)

SpecCall == Init /\ [][NextCall]_vars

-----------------------------------------------------------------------------
(* Properties of the packet codec, checked under SpecCodec *)

Builders ==
    {"build_keyboard_press_packet", "build_keyboard_release_packet",
     "build_mouse_abs_packet", "build_mouse_rel_packet",
     "build_media_press_packet", "build_media_release_packet",
     "keyboard_state_packet"}

\* a builder was applied and returned a packet
Built == result.op \in Builders /\ result.raised = "None"

\* the arguments the builder places in the packet as they are, are bytes
ByteValued ==
    CASE result.op \in {"build_keyboard_press_packet", "build_media_press_packet"} ->
             \A i \in DOMAIN result.args : result.args[i] \in Bytes
      [] result.op \in {"build_mouse_abs_packet", "build_mouse_rel_packet"} ->
             result.args[1] \in Bytes
      [] result.op = "keyboard_state_packet" ->
             /\ result.args[1] \in Bytes
             /\ \A i \in DOMAIN result.args[2] : result.args[2][i] \in Bytes
      [] OTHER -> TRUE

\* the sum of all bytes of a packet before its last one
RECURSIVE SumBefore(_, _)
SumBefore(packet, n) == IF n <= 1 THEN 0 ELSE SumBefore(packet, n - 1) + packet[n - 1]

\* the number of data bytes of each kind of packet
DataLen ==
    [build_keyboard_press_packet |-> 8, build_keyboard_release_packet |-> 8,
     keyboard_state_packet |-> 8, build_mouse_abs_packet |-> 7,
     build_mouse_rel_packet |-> 5, build_media_press_packet |-> 4,
     build_media_release_packet |-> 4]

Clamp(v, low, high) == IF v < low THEN low ELSE IF v > high THEN high ELSE v

\* the byte that stands for a signed value: its 8-bit two's complement
Enc(v) == IF v >= 0 THEN v ELSE v + 256

C2_Length ==
    Built =>
        LET packet == result.value
            data_len == DataLen[result.op]
        IN  /\ Len(packet) = 5 + data_len + 1
            /\ packet[5] = data_len
            /\ Len(packet) =
                 CASE data_len = 8 -> 14 [] data_len = 7 -> 13
                   [] data_len = 5 -> 11 [] data_len = 4 -> 10
            /\ SubSeq(packet, 1, 3) = <<87, 171, 0>>

\* a keyboard-state packet built from six keys: no room for padding
C2_Witness ==
    /\ Built
    /\ result.op = "keyboard_state_packet"
    /\ Len(result.args[2]) = MAX_ROLLOVER_KEYS

C4_MouseRel ==
    result.op = "build_mouse_rel_packet" /\ ByteValued =>
        LET button == result.args[1]
            x_byte == Enc(Clamp(result.args[2], 0 - 128, 127))
            y_byte == Enc(Clamp(result.args[3], 0 - 128, 127))
            scroll_byte == Enc(Clamp(result.args[4], 0 - 127, 127))
        IN  /\ result.raised = "None"
            /\ SubSeq(result.value, 1, 10) =
                 <<87, 171, 0, 5, 5, 1, button, x_byte, y_byte, scroll_byte>>
            /\ Len(result.value) = 11
            /\ \A i \in DOMAIN result.value : result.value[i] \in 0..255
            /\ result.args = <<0, 0 - 10, 0 - 20, 0>> =>
                 result.value = <<87, 171, 0, 5, 5, 1, 0, 246, 236, 0, 239>>

\* a relative packet whose x and scroll are both below their lower bounds
C4_Witness ==
    /\ result.op = "build_mouse_rel_packet"
    /\ result.raised = "None"
    /\ result.args[2] < 0 - 128
    /\ result.args[4] < 0 - 127

\* C5: build_mouse_abs_packet emits command 0x04 and the data 0x02, button,
\* x_low, x_high, y_low, y_high, 0x00 with x' = min(4095, max(0, x)), x_low =
\* x' mod 256, x_high = x' div 256 (the same for y); the high bytes never
\* exceed 0x0F and the coordinate read back from the packet is in 0..4095.
C5_MouseAbs ==
    result.op = "build_mouse_abs_packet" /\ ByteValued =>
        LET button == result.args[1]
            x1 == Clamp(result.args[2], 0, 4095)
            y1 == Clamp(result.args[3], 0, 4095)
            packet == result.value
        IN  /\ result.raised = "None"
            /\ SubSeq(packet, 1, 12) =
                 <<87, 171, 0, 4, 7, 2, button, x1 % 256, x1 \div 256,
                   y1 % 256, y1 \div 256, 0>>
            /\ Len(packet) = 13
            /\ packet[9] <= 15 /\ packet[11] <= 15
            /\ packet[8] + 256 * packet[9] \in 0..4095
            /\ packet[10] + 256 * packet[11] \in 0..4095

\* an absolute packet of an x beyond 4095 and a negative y
C5_Witness ==
    /\ result.op = "build_mouse_abs_packet"
    /\ result.raised = "None"
    /\ result.args[2] > 4095
    /\ result.args[3] < 0
-----------------------------------------------------------------------------
(* Properties of single driver calls, checked under SpecCall *)

\* the media press frame of a key, byte by byte
MediaPressFrame(key) ==
    <<87, 171, 0, 3, 4>> \o key.value
        \o <<(87 + 171 + 3 + 4 + key.value[1] + key.value[2] + key.value[3]
                + key.value[4]) % 256>>

MediaReleaseFrame == <<87, 171, 0, 3, 4, 2, 0, 0, 0, 11>>

C7_RolloverBound ==
    /\ result.op = "KeyboardState" =>
         /\ Len(result.args[2]) > 6 => result.raised = "ValueError" /\ state = None
         /\ Len(result.args[2]) <= 6 =>
              /\ result.raised = "None"
              /\ state = Some([modifiers |-> result.args[1], keys |-> result.args[2]])
    /\ state # None => Len(state[1].keys) <= 6
    /\ result.op = "send_keyboard_state" /\ result.raised = "None" =>
         /\ Len(sent) = 1
         /\ Len(sent[1]) = 14
         /\ sent[1][5] = 8
    /\ \A i \in DOMAIN sent : sent[i][4] = 2 => Len(sent[i]) = 14 /\ sent[i][5] = 8

\* seven keys: the construction is refused
C7_Witness ==
    /\ result.op = "KeyboardState"
    /\ Len(result.args[2]) = 7
    /\ result.raised = "ValueError"

\* the bits 0x01 .. 0x80
Bits == {1, 2, 4, 8, 16, 32, 64, 128}

HasBit(n, bit) == (n \div bit) % 2 = 1

RECURSIVE SetSum(_)
SetSum(S) == IF S = {} THEN 0 ELSE LET x == CHOOSE x \in S : TRUE IN x + SetSum(S \ {x})

\* the bitwise OR of the native bits of a set of modifiers
OrOfNativeBits(modifiers) ==
    SetSum({bit \in Bits :
               \E m \in modifiers : HasBit(_EVDEV_TO_USB_HID_MODIFIER[m.value], bit)})

\* C8: for every valid keyboard state, send_keyboard_state sends exactly one
\* frame 57 AB 00 02 08 whose modifier byte is the OR of the native bits of the
\* modifiers (all eight 0xFF, none 0x00), whose reserved byte is 0x00 and whose
\* six key slots hold the native codes of the keys in order, then 0x00; the
\* empty state sends the keyboard release frame.
C8_KeyboardStateFrame ==
    result.op = "send_keyboard_state" =>
        LET modifiers == result.args[1].modifiers
            keys == result.args[1].keys
        IN  /\ result.raised \in {"None", "AdapterError"}
            /\ result.raised # "None" => sent = <<>>
            /\ result.raised = "None" =>
                 LET frame == sent[1]
                 IN  /\ Len(sent) = 1
                     /\ Len(frame) = 14
                     /\ SubSeq(frame, 1, 5) = <<87, 171, 0, 2, 8>>
                     /\ frame[6] = OrOfNativeBits(modifiers)
                     /\ modifiers = ModifierKey => frame[6] = 255
                     /\ modifiers = {} => frame[6] = 0
                     /\ frame[7] = 0
                     /\ \A i \in 1..6 :
                            frame[7 + i] =
                                IF i <= Len(keys)
                                THEN _EVDEV_TO_USB_HID_KEYBOARD[keys[i].value]
                                ELSE 0
                     /\ frame[14] = SumBefore(frame, 14) % 256
                     /\ modifiers = {} /\ keys = <<>> =>
                            /\ frame = <<87, 171, 0, 2, 8, 0, 0, 0, 0, 0, 0, 0, 0, 12>>
                            /\ frame = build_keyboard_release_packet.value

\* two modifiers and three keys, the last two different, sent
C8_Witness ==
    /\ result.op = "send_keyboard_state"
    /\ result.raised = "None"
    /\ Cardinality(result.args[1].modifiers) = 2
    /\ Len(result.args[1].keys) = 3
    /\ result.args[1].keys[2] # result.args[1].keys[3]

\* the methods that send one frame
SingleFrameMethods ==
    {"key_down", "key_up", "mouse_button_down", "mouse_button_up",
     "mouse_move_absolute", "mouse_move_relative", "mouse_scroll",
     "media_key_down", "media_key_up", "send_keyboard_state", "send_mouse_state"}

\* header 57 AB, address 00, command, length of the data, data, checksum
CompleteFrame(frame) ==
    /\ Len(frame) >= 6
    /\ \A i \in DOMAIN frame : frame[i] \in 0..255
    /\ SubSeq(frame, 1, 3) = <<87, 171, 0>>
    /\ frame[5] = Len(frame) - 6
    /\ frame[Len(frame)] = SumBefore(frame, Len(frame)) % 256

\* C16: each call of key_down, key_up, mouse_button_down, mouse_button_up,
\* mouse_move_absolute, mouse_move_relative, mouse_scroll, media_key_down,
\* media_key_up, send_keyboard_state or send_mouse_state hands the adapter one
\* complete frame, once: a call that returns has sent exactly that frame, and a
\* call the adapter refused has sent nothing; constructing the driver sends
\* nothing.
C16_OneFramePerCall ==
    /\ result.op \in SingleFrameMethods =>
         /\ result.raised \in {"None", "AdapterError"}
         /\ result.raised = "None" => Len(sent) = 1 /\ CompleteFrame(sent[1])
         /\ result.raised = "AdapterError" => sent = <<>>
    /\ result.op = "__init__" => sent = <<>>

\* a mouse state of two buttons with a movement, sent to an adapter that
\* would have taken a second frame
C16_Witness ==
    /\ result.op = "send_mouse_state"
    /\ result.raised = "None"
    /\ Cardinality(result.args[1].buttons) = 2
    /\ result.args[1].x # 0
    /\ Len(sent) = 1

\* the modifier byte of four flags: 0x01 ctrl, 0x02 shift, 0x04 alt, 0x08 windows
FlagBits(shift, ctrl, alt, windows) ==
    (IF ctrl THEN 1 ELSE 0) + (IF shift THEN 2 ELSE 0)
        + (IF alt THEN 4 ELSE 0) + (IF windows THEN 8 ELSE 0)

\* what a press-and-release has sent and logged: the press frame then the
\* release frame with Down then Up when both went through, the press frame
\* with Down when the adapter refused the release, nothing when it refused
\* the press
PressedThenReleased(press, release, Down, Up) ==
    LET logging == _recorder /\ _recording
    IN  /\ result.raised \in {"None", "AdapterError"}
        /\ result.raised = "None" =>
             /\ sent = <<press, release>>
             /\ _operations = (IF logging THEN <<Down, Up>> ELSE <<>>)
        /\ result.raised = "AdapterError" =>
             \/ sent = <<>> /\ _operations = <<>>
             \/ /\ sent = <<press>>
                /\ _operations = (IF logging THEN <<Down>> ELSE <<>>)

\* C17: press_key, mouse_click and press_media_key send exactly two frames,
\* the press frame then the release-all frame, and while the attached recorder
\* is recording log the Down operation then the Up operation, as key_down then
\* key_up (mouse_button_down then mouse_button_up, media_key_down then
\* media_key_up) do; a refused press ends the call with nothing sent or logged,
\* a refused release with the press sent and Down logged.
C17_PressIsDownThenUp ==
    /\ result.op = "press_key" =>
         LET a == result.args
         IN  PressedThenReleased(
                 build_keyboard_press_packet(FlagBits(a[2], a[3], a[4], a[5]),
                     _EVDEV_TO_USB_HID_KEYBOARD[a[1].value]).value,
                 build_keyboard_release_packet.value,
                 KeyDownOperation(a[1], a[2], a[3], a[4], a[5]),
                 KeyUpOperation)
    /\ result.op = "mouse_click" =>
         PressedThenReleased(
             build_mouse_rel_packet(
                 _EVDEV_TO_USB_HID_MOUSE[result.args[1].value], 0, 0, 0).value,
             build_mouse_rel_packet(0, 0, 0, 0).value,
             MouseButtonDownOperation(result.args[1]),
             MouseButtonUpOperation)
    /\ result.op = "press_media_key" =>
         PressedThenReleased(
             MediaPressFrame(result.args[1]),
             MediaReleaseFrame,
             MediaKeyDownOperation(result.args[1]),
             MediaKeyUpOperation)

\* KEY_YEN pressed and released with shift and alt while recording
C17_Witness ==
    /\ result.op = "press_key"
    /\ result.raised = "None"
    /\ result.args[1].name = "KEY_YEN"
    /\ result.args[2] /\ result.args[4]
    /\ _recorder /\ _recording
    /\ Len(sent) = 2
    /\ Len(_operations) = 2

\* C18: for every KeyCode k and every combination of ctrl, shift, alt and
\* windows, key_down sends exactly build_keyboard_press_packet(m, native(k)),
\* m being the OR of 0x01 (ctrl), 0x02 (shift), 0x04 (alt) and 0x08 (windows)
\* over the flags set: byte 5 of the frame is m and byte 7 is the native scan
\* code of k.
C18_KeyDownFrame ==
    result.op = "key_down" =>
        LET key == result.args[1]
            m == FlagBits(result.args[2], result.args[3], result.args[4],
                          result.args[5])
        IN  /\ key \in KeyCode
            /\ key.value \in DOMAIN _EVDEV_TO_USB_HID_KEYBOARD
            /\ result.raised \in {"None", "AdapterError"}
            /\ result.raised = "AdapterError" => sent = <<>>
            /\ result.raised = "None" =>
                 LET native == _EVDEV_TO_USB_HID_KEYBOARD[key.value]
                 IN  /\ sent = <<build_keyboard_press_packet(m, native).value>>
                     /\ Len(sent[1]) = 14
                     /\ sent[1][6] = m
                     /\ sent[1][8] = native
                     /\ \A bit \in {1, 2, 4, 8} :
                            HasBit(sent[1][6], bit) <=>
                                \/ bit = 1 /\ result.args[3]
                                \/ bit = 2 /\ result.args[2]
                                \/ bit = 4 /\ result.args[4]
                                \/ bit = 8 /\ result.args[5]
                     /\ \A bit \in {16, 32, 64, 128} : ~HasBit(sent[1][6], bit)

\* KEY_RO pressed with ctrl and windows and no shift: the modifier byte is 0x09
C18_Witness ==
    /\ result.op = "key_down"
    /\ result.raised = "None"
    /\ result.args[1].name = "KEY_RO"
    /\ ~result.args[2] /\ result.args[3] /\ ~result.args[4] /\ result.args[5]
    /\ sent[1][6] = 9

\* the character's entry in the table names a modifier
NeedsShift(char) == _CHARACTER_MAP[char][1] # 0

\* the frames write_string is to send for a text of table characters
RECURSIVE PressAndRelease(_)
PressAndRelease(text) ==
    IF text = <<>> THEN <<>>
    ELSE <<build_keyboard_press_packet(
               IF NeedsShift(Head(text)) THEN 2 ELSE 0,
               _EVDEV_TO_USB_HID_KEYBOARD[_CHARACTER_MAP[Head(text)][2]]).value,
           build_keyboard_release_packet.value>>
         \o PressAndRelease(Tail(text))

\* C20: for every text of n characters that are all in the character table,
\* write_string (on an adapter that refuses no frame) sends exactly 2n frames:
\* for the i-th character a keyboard press frame, with modifier byte 0x02
\* exactly when the character needs shift and 0x00 otherwise, then the
\* keyboard release frame, so that the last frame sent is a release; the
\* empty string sends no frame.
C20_WriteString ==
    (/\ result.op = "write_string"
     /\ \A i \in DOMAIN result.args[1] : result.args[1][i] \in DOMAIN _CHARACTER_MAP
     /\ result.raised # "AdapterError") =>
        LET text == result.args[1]
            n == Len(text)
        IN  /\ result.raised = "None"
            /\ Len(sent) = 2 * n
            /\ sent = PressAndRelease(text)
            /\ \A i \in 1..n :
                   /\ sent[2 * i - 1][6] = (IF NeedsShift(text[i]) THEN 2 ELSE 0)
                   /\ sent[2 * i] = build_keyboard_release_packet.value
            /\ n > 0 => sent[Len(sent)] = build_keyboard_release_packet.value
            /\ n = 0 => sent = <<>>

-----------------------------------------------------------------------------
(* SpecEvdev: one function of evdev_mapping.py applied to one integer code  *)

\* the codes around and between the tables' keys, and two far ones
EvdevCodes == ((0 - Margin)..(ecodes.BTN_MIDDLE + Margin)) \cup {999, 65536}

to_usb_hid_keyboard(evdev_code) ==
    Applies("evdev_to_usb_hid_keyboard", <<evdev_code>>,
            evdev_to_usb_hid_keyboard(evdev_code))

to_usb_hid_mouse(evdev_code) ==
    Applies("evdev_to_usb_hid_mouse", <<evdev_code>>,
            evdev_to_usb_hid_mouse(evdev_code))

to_usb_hid_modifier(evdev_code) ==
    Applies("evdev_to_usb_hid_modifier", <<evdev_code>>,
            evdev_to_usb_hid_modifier(evdev_code))

is_supported(evdev_code) ==
    Applies("is_supported_evdev_code", <<evdev_code>>,
            is_supported_evdev_code(evdev_code))

NextEvdev ==
    \/ Fresh /\ \E evdev_code \in EvdevCodes : to_usb_hid_keyboard(evdev_code)
    \/ Fresh /\ \E evdev_code \in EvdevCodes : to_usb_hid_mouse(evdev_code)
    \/ Fresh /\ \E evdev_code \in EvdevCodes : to_usb_hid_modifier(evdev_code)
    \/ Fresh /\ \E evdev_code \in EvdevCodes : is_supported(evdev_code)

SpecEvdev == InitCodec /\ [][NextEvdev]_vars

\* the static table a translation function reads
TableOf(function) ==
    CASE function = "evdev_to_usb_hid_keyboard" -> _EVDEV_TO_USB_HID_KEYBOARD
      [] function = "evdev_to_usb_hid_mouse" -> _EVDEV_TO_USB_HID_MOUSE
      [] function = "evdev_to_usb_hid_modifier" -> _EVDEV_TO_USB_HID_MODIFIER

Translations ==
    {"evdev_to_usb_hid_keyboard", "evdev_to_usb_hid_mouse", "evdev_to_usb_hid_modifier"}

\* C19: for every integer code, each of the three translation functions
\* returns the value its table maps the code to, or raises
\* UnsupportedEvdevCodeError whose attribute `code` is the code it was given;
\* is_supported_evdev_code(code) is true exactly when one of the three
\* translations or more succeeds for the code.
C19_TranslateOrFail ==
    /\ result.op \in Translations =>
         LET code == result.args[1]
             table == TableOf(result.op)
         IN  /\ code \in DOMAIN table =>
                  result.raised = "None" /\ result.value = table[code]
             /\ code \notin DOMAIN table =>
                  /\ result.raised = "UnsupportedEvdevCodeError"
                  /\ result.value.code = code
    /\ result.op = "is_supported_evdev_code" =>
         LET code == result.args[1]
         IN  /\ result.raised = "None"
             /\ result.value \in BOOLEAN
             /\ result.value <=>
                    \/ evdev_to_usb_hid_keyboard(code).raised = "None"
                    \/ evdev_to_usb_hid_mouse(code).raised = "None"
                    \/ evdev_to_usb_hid_modifier(code).raised = "None"

\* KEY_LEFTSHIFT given to the mouse translation: it is a modifier, not a button
C19_Witness ==
    /\ result.op = "evdev_to_usb_hid_mouse"
    /\ result.args[1] = ecodes.KEY_LEFTSHIFT
    /\ result.raised = "UnsupportedEvdevCodeError"
    /\ result.value.code = ecodes.KEY_LEFTSHIFT
    /\ is_supported_evdev_code(ecodes.KEY_LEFTSHIFT).value

-----------------------------------------------------------------------------
(* The operation log: recorded, saved to the file, the file rewritten by    *)
(* another program, and loaded                                              *)

MaxLog == 2         \* the longest log a run of SpecLog records

NumberSample == {0 - 1200, 0 - 1, 0, 7, 10, 105, 1230, 60001}

\* one operation or more of every class, for the logs that are saved
OperationSample ==
    {KeyDownOperation(member(KeyCodeBody, "KEY_A"), FALSE, TRUE, FALSE, FALSE),
     KeyDownOperation(member(KeyCodeBody, "KEY_YEN"), TRUE, FALSE, TRUE, TRUE),
     KeyUpOperation,
     MouseButtonDownOperation(member(MouseButtonBody, "BTN_RIGHT")),
     MouseButtonUpOperation,
     MediaKeyDownOperation(member(MediaKeyBody, "MUTE")),
     MediaKeyUpOperation,
     MouseMoveAbsoluteOperation(960, 0),
     MouseMoveRelativeOperation(0 - 10, 105),
     MouseScrollOperation(0 - 3),
     DelayOperation(2),
     DelayOperation(0 - 1200)}

\* _operation_from_dict(op.to_dict())
_operation_from_dict_to_dict(op) ==
    Applies("_operation_from_dict", <<op>>, _operation_from_dict(to_dict(op)))

\* OperationRecorder.save(filepath)
save ==
    /\ file' = Some(OperationRecorder_save(_operations))
    /\ result' = [op |-> "save", args |-> <<>>, raised |-> "None", value |-> None]
    /\ UNCHANGED <<sent, _recorder, _operations, _recording, _last_time, now, state,
                   returned, called, replayed, send_calls>>

\* OperationRecorder.load(filepath)
load == Applies("load", <<>>, OperationRecorder_load(file))

\* what another program can leave as the "type" of a record: no member at
\* all, null, the empty array, or a string that is no discriminator
TypeTokens ==
    {None, Some([json |-> "null"]), Some([json |-> "array"]),
     Some([json |-> "string", text |-> "KEY_UP"])}

\* the members of an object without its "type" members
RECURSIVE without_type(_)
without_type(object) ==
    IF object = <<>> THEN <<>>
    ELSE IF Head(object)[1] = "type" THEN without_type(Tail(object))
    ELSE <<Head(object)>> \o without_type(Tail(object))

\* the file rewritten with the "type" of its i-th record removed or replaced
write_text(i, type) ==
    /\ file # None
    /\ i \in DOMAIN file[1]
    /\ file' = Some([file[1] EXCEPT ![i] =
                        IF type = None THEN without_type(@)
                        ELSE Append(without_type(@), <<"type", type[1]>>)])
    /\ result' = [op |-> "write_text", args |-> <<i, type>>, raised |-> "None",
                  value |-> None]
    /\ UNCHANGED <<sent, _recorder, _operations, _recording, _last_time, now, state,
                   returned, called, replayed, send_calls>>

\* A run records at most MaxLog operations, saves once, and then the file is
\* rewritten and loaded.
NextLog ==
    \/ Fresh /\ \E key \in KeyCode : \E shift, ctrl, alt, windows \in BOOLEAN :
           _operation_from_dict_to_dict(KeyDownOperation(key, shift, ctrl, alt, windows))
    \/ Fresh /\ _operation_from_dict_to_dict(KeyUpOperation)
    \/ Fresh /\ \E button \in MouseButton :
           _operation_from_dict_to_dict(MouseButtonDownOperation(button))
    \/ Fresh /\ _operation_from_dict_to_dict(MouseButtonUpOperation)
    \/ Fresh /\ \E key \in MediaKey :
           _operation_from_dict_to_dict(MediaKeyDownOperation(key))
    \/ Fresh /\ _operation_from_dict_to_dict(MediaKeyUpOperation)
    \/ Fresh /\ \E x, y \in NumberSample :
           _operation_from_dict_to_dict(MouseMoveAbsoluteOperation(x, y))
    \/ Fresh /\ \E x, y \in NumberSample :
           _operation_from_dict_to_dict(MouseMoveRelativeOperation(x, y))
    \/ Fresh /\ \E amount \in NumberSample :
           _operation_from_dict_to_dict(MouseScrollOperation(amount))
    \/ Fresh /\ \E seconds \in NumberSample :
           _operation_from_dict_to_dict(DelayOperation(seconds))
    \/ Fresh /\ start_recording
    \/ file = None /\ result.op \in {"start_recording", "record"} /\ stop_recording
    \/ /\ file = None
       /\ result.op \in {"__init__", "start_recording", "record", "stop_recording"}
       /\ Len(_operations) < MaxLog
       /\ \E operation \in OperationSample : record(operation)
    \/ /\ file = None
       /\ result.op \in {"__init__", "start_recording", "record", "stop_recording"}
       /\ save
    \/ /\ result.op \in {"save", "write_text"}
       /\ \E i \in 1..MaxLog : \E type \in TypeTokens : write_text(i, type)
    \/ /\ result.op \in {"__init__", "start_recording", "record", "stop_recording",
                        "save", "write_text"}
       /\ load

InitLog == Init /\ _recorder

SpecLog == InitLog /\ [][NextLog]_vars

-----------------------------------------------------------------------------
(* Every call in any order: a run sends at most MaxSent frames (one more    *)
(* when its last call sends two), lasts MaxTime milliseconds and saves the  *)
(* log it recorded once it has stopped recording.                           *)

Sending == Len(sent) < MaxSent

Next ==
    \/ now < MaxTime /\ Tick
    \/ file = None /\ start_recording
    \/ file = None /\ result.op # "stop_recording" /\ stop_recording
    \/ file = None /\ Len(_operations) < MaxLog /\ record(KeyUpOperation)
    \/ /\ Sending
       /\ \E shift \in BOOLEAN, budget \in 0..1 :
              key_down(member(KeyCodeBody, "KEY_A"), shift, FALSE, FALSE, FALSE, budget)
    \/ Sending /\ \E budget \in 0..1 : key_up(budget)
    \/ /\ Sending
       /\ \E budget \in 0..2 :
              press_key(member(KeyCodeBody, "KEY_YEN"), FALSE, TRUE, FALSE, FALSE, budget)
    \/ /\ Fresh
       /\ \E keys \in SeqsUpTo({member(KeyCodeBody, "KEY_A")}, 1) :
              new_KeyboardState({member(ModifierKeyBody, "KEY_LEFTSHIFT")}, keys)
    \/ Sending /\ send_keyboard_state(1)
    \/ Sending /\ \E x \in {0, 1920} : mouse_move_absolute(x, 540, 1)
    \/ Sending /\ \E x \in {0 - 129, 5} : mouse_move_relative(x, 0, 1)
    \/ Sending /\ mouse_button_down(member(MouseButtonBody, "BTN_LEFT"), 1)
    \/ Sending /\ mouse_button_up(1)
    \/ Sending /\ \E budget \in 0..2 :
           mouse_click(member(MouseButtonBody, "BTN_RIGHT"), budget)
    \/ Sending /\ mouse_scroll(0 - 3, 1)
    \/ Fresh /\ new_MouseInput({member(MouseButtonBody, "BTN_LEFT")}, 5, 0, 0 - 1)
    \/ Sending /\ send_mouse_state(1)
    \/ Sending /\ \E budget \in 1..2 : write_string(<<"A">>, budget)
    \/ Sending /\ media_key_down(member(MediaKeyBody, "MUTE"), 1)
    \/ Sending /\ media_key_up(1)
    \/ Sending /\ \E budget \in 0..2 :
           press_media_key(member(MediaKeyBody, "PLAY_PAUSE"), budget)
    \/ result.op = "stop_recording" /\ save
    \/ result.op = "save" /\ \E type \in TypeTokens : write_text(1, type)
    \/ result.op \in {"save", "write_text"} /\ load

Spec == Init /\ [][Next]_vars

-----------------------------------------------------------------------------
(* The operation log's claims, checked under SpecLog *)

\* C9: for every operation of each of the ten classes,
\* _operation_from_dict(op.to_dict()) returns an operation of the same class
\* with every field equal; and load of the file save wrote returns a list of
\* the same length with the same operations in the same order.
C9_RoundTrip ==
    /\ result.op = "_operation_from_dict" =>
           /\ result.raised = "None"
           /\ result.value.class = result.args[1].class
           /\ result.value = result.args[1]
    /\ (result.op = "load" /\ file = Some(OperationRecorder_save(_operations))) =>
           /\ result.raised = "None"
           /\ Len(result.value) = Len(_operations)
           /\ \A i \in DOMAIN _operations : result.value[i] = _operations[i]

\* a saved log of a delay and a key press with ctrl and without shift, loaded
C9_Witness ==
    /\ result.op = "load"
    /\ file = Some(OperationRecorder_save(_operations))
    /\ Len(_operations) = 2
    /\ _operations[1].class = "DelayOperation"
    /\ _operations[2].class = "KeyDownOperation"
    /\ _operations[2].ctrl
    /\ ~_operations[2].shift
    /\ result.raised = "None"
    /\ Len(result.value) = 2

\* the token of the "type" member json.loads keeps (the last one), if any
RECURSIVE type_of(_)
type_of(object) ==
    IF object = <<>> THEN None
    ELSE IF object[Len(object)][1] = "type" THEN Some(object[Len(object)][2])
    ELSE type_of(SubSeq(object, 1, Len(object) - 1))

\* the record has no "type" or one that is none of the ten discriminators
UnknownType(object) ==
    LET type == type_of(object)
    IN  \/ type = None
        \/ type[1].json # "string"
        \/ type[1].json = "string" /\ type[1].text \notin DOMAIN _OPERATION_TYPES

\* C10: loading a file in which any record, at any position, has a "type"
\* that is missing or is not one of the ten discriminators fails the whole
\* load with an 'Unknown operation type' error and returns no list.
C10_UnknownTypeFailsLoad ==
    (/\ result.op = "load"
     /\ file # None
     /\ \E i \in DOMAIN file[1] : UnknownType(file[1][i])) =>
        /\ result.raised = "ValueError"
        /\ result.value = Some("Unknown operation type")

-----------------------------------------------------------------------------
(* The recorder alone: started, stopped and fed by its owner while the      *)
(* clock runs for MaxTime milliseconds                                      *)

\* the operations the owner records
RecordSample == {KeyUpOperation, MouseScrollOperation(0 - 3)}

\* an operation the owner records only while the recorder is idle
Dropped == KeyDownOperation(member(KeyCodeBody, "KEY_C"), FALSE, FALSE, FALSE, FALSE)

RecordArgs == RecordSample \cup {Dropped}

NextRecorder ==
    \/ now < MaxTime /\ Tick
    \/ start_recording
    \/ stop_recording
    \/ /\ Len(_operations) < MaxLog
       /\ \E operation \in (IF _recording THEN RecordSample ELSE RecordArgs) :
              record(operation)
    \/ /\ returned # None
       /\ Len(returned[1].items) < MaxLog
       /\ returned_append(MediaKeyUpOperation)

SpecRecorder == InitLog /\ [][NextRecorder]_vars

\* C11: while the recorder is idle (before the first start_recording or after
\* stop_recording) record(op) changes neither the log nor the last-time
\* marker, and an operation recorded only while idle is in no log, of this
\* session or a later one.
C11_IdleRecord ==
    /\ [][\A operation \in RecordArgs :
              (~_recording /\ record(operation)) =>
                  UNCHANGED <<_operations, _last_time>>]_vars
    /\ [](\A i \in DOMAIN _operations : _operations[i] # Dropped)

\* record(Dropped) just called on a recorder that was stopped with a log
C11_Witness ==
    /\ result.op = "record"
    /\ result.args = <<Dropped>>
    /\ ~_recording
    /\ _operations # <<>>
    /\ _last_time # None

\* C12: while recording, record(op) at time t with marker t0 appends
\* Delay(t - t0) right before op exactly when t - t0 > 1 ms, appends op and
\* sets the marker to t; the marker is only ever set, to the current time, by
\* start_recording and by such a record.
C12_RecordingRecord ==
    /\ [][\A operation \in RecordSample :
              (_recording /\ record(operation)) =>
                  /\ _last_time # None
                  /\ _operations' =
                         IF now - _last_time[1] > 1
                         THEN _operations \o
                                  <<DelayOperation(now - _last_time[1]), operation>>
                         ELSE _operations \o <<operation>>
                  /\ _last_time' = Some(now)]_vars
    /\ [][_last_time' # _last_time =>
              /\ _last_time' = Some(now)
              /\ \/ result'.op = "start_recording"
                 \/ result'.op = "record" /\ _recording]_vars

\* started at 0, an operation recorded by 1 ms and the next at 3 ms: the
\* delay between them is 2 ms, not the 3 ms since the start
C12_Witness ==
    /\ result.op = "record"
    /\ _recording
    /\ now = 3
    /\ _last_time = Some(3)
    /\ Len(_operations) = 3
    /\ _operations[1].class # "DelayOperation"
    /\ _operations[2] = DelayOperation(2)

\* C13: stop_recording leaves the recorder idle and returns the log in
\* recorded order; the list it returned is changed by no later
\* start_recording or record, and the caller's change of that list does not
\* change the recorder's log.
C13_StopSnapshot ==
    /\ [][stop_recording =>
              /\ ~_recording'
              /\ result'.value = _operations
              /\ returned' # None
              /\ returned'[1].items = _operations
              /\ _operations' = _operations]_vars
    /\ [][(start_recording \/ \E operation \in RecordArgs : record(operation)) =>
              returned' = returned]_vars
    /\ [][(\E operation \in {MediaKeyUpOperation} : returned_append(operation)) =>
              _operations' = _operations]_vars

\* a log was returned, the caller appended to it, and a new session has
\* recorded an operation since
C13_Witness ==
    /\ result.op = "record"
    /\ _recording
    /\ Len(_operations) = 1
    /\ returned # None
    /\ Len(returned[1].items) = 2
    /\ returned[1].items[1] = MouseScrollOperation(0 - 3)
    /\ returned[1].items[2] = MediaKeyUpOperation

-----------------------------------------------------------------------------
(* recorder.py: Operation.execute and OperationReplayer.  The driver an     *)
(* operation is executed on notes each call made on it (and on time.sleep)  *)
(* in calls, and the seconds slept in slept.                                *)

\* driver.method(*args) is entered
invoked(driver, method, args) ==
    [driver EXCEPT !.calls = Append(@, [method |-> method, args |-> args])]

\* time.sleep(seconds): ValueError for a negative length
time_sleep(driver, seconds) ==
    IF driver.raised # "None" THEN driver
    ELSE IF seconds < 0 THEN Throw(driver, "ValueError")
    ELSE [driver EXCEPT !.slept = @ + seconds]

\* mutant: driver.key_down(self.key) without the modifier flags
KeyDownOperation_execute_key(self, driver) ==
    CH9329Driver_key_down(invoked(driver, "key_down", <<self.key, FALSE, FALSE, FALSE, FALSE>>),
                          self.key, FALSE, FALSE, FALSE, FALSE)

KeyDownOperation_execute(self, driver) ==
    CH9329Driver_key_down(
        invoked(driver, "key_down",
                <<self.key, self.shift, self.ctrl, self.alt, self.windows>>),
        self.key, self.shift, self.ctrl, self.alt, self.windows)

KeyUpOperation_execute(self, driver) ==
    CH9329Driver_key_up(invoked(driver, "key_up", <<>>))

MouseButtonDownOperation_execute(self, driver) ==
    CH9329Driver_mouse_button_down(
        invoked(driver, "mouse_button_down", <<self.button>>), self.button)

MouseButtonUpOperation_execute(self, driver) ==
    CH9329Driver_mouse_button_up(invoked(driver, "mouse_button_up", <<>>))

MediaKeyDownOperation_execute(self, driver) ==
    CH9329Driver_media_key_down(invoked(driver, "media_key_down", <<self.key>>), self.key)

MediaKeyUpOperation_execute(self, driver) ==
    CH9329Driver_media_key_up(invoked(driver, "media_key_up", <<>>))

MouseMoveAbsoluteOperation_execute(self, driver) ==
    CH9329Driver_mouse_move_absolute(
        invoked(driver, "mouse_move_absolute", <<self.x, self.y>>),
        self.x, self.y, _screen_width, _screen_height)

MouseMoveRelativeOperation_execute(self, driver) ==
    CH9329Driver_mouse_move_relative(
        invoked(driver, "mouse_move_relative", <<self.x, self.y>>), self.x, self.y)

MouseScrollOperation_execute(self, driver) ==
    CH9329Driver_mouse_scroll(invoked(driver, "mouse_scroll", <<self.amount>>),
                              self.amount)

DelayOperation_execute(self, _driver) ==
    time_sleep(invoked(_driver, "sleep", <<self.seconds>>), self.seconds)

\* operation.execute(driver), by the class of operation; an exception in
\* flight means the statement is never reached
execute(operation, driver) ==
    IF driver.raised # "None" THEN driver
    ELSE CASE operation.class = "KeyDownOperation" ->
                  KeyDownOperation_execute(operation, driver)
           [] operation.class = "KeyUpOperation" ->
                  KeyUpOperation_execute(operation, driver)
           [] operation.class = "MouseButtonDownOperation" ->
                  MouseButtonDownOperation_execute(operation, driver)
           [] operation.class = "MouseButtonUpOperation" ->
                  MouseButtonUpOperation_execute(operation, driver)
           [] operation.class = "MediaKeyDownOperation" ->
                  MediaKeyDownOperation_execute(operation, driver)
           [] operation.class = "MediaKeyUpOperation" ->
                  MediaKeyUpOperation_execute(operation, driver)
           [] operation.class = "MouseMoveAbsoluteOperation" ->
                  MouseMoveAbsoluteOperation_execute(operation, driver)
           [] operation.class = "MouseMoveRelativeOperation" ->
                  MouseMoveRelativeOperation_execute(operation, driver)
           [] operation.class = "MouseScrollOperation" ->
                  MouseScrollOperation_execute(operation, driver)
           [] operation.class = "DelayOperation" ->
                  DelayOperation_execute(operation, driver)

\* mutant: try: operation.execute(driver) / except Exception: pass
RECURSIVE OperationReplayer_replay_except(_, _)
OperationReplayer_replay_except(operations, driver) ==
    IF operations = <<>> THEN driver
    ELSE OperationReplayer_replay_except(
             Tail(operations),
             [execute(Head(operations), driver) EXCEPT !.raised = "None"])

\* OperationReplayer.replay: for operation in operations: operation.execute(driver)
RECURSIVE OperationReplayer_replay(_, _)
OperationReplayer_replay(operations, driver) ==
    IF operations = <<>> THEN driver
    ELSE OperationReplayer_replay(Tail(operations), execute(Head(operations), driver))

\* replayer.replay(operations, driver), the driver's adapter accepting
\* `budget` sends
replay(operations, budget) ==
    LET after == OperationReplayer_replay(operations, Self(budget))
    IN  /\ sent' = after.sent
        /\ _operations' = after._operations
        /\ _recording' = after._recording
        /\ _last_time' = after._last_time
        /\ returned' = seen_by_caller(returned, after._operations)
        /\ now' = now + after.slept
        /\ replayed' = after.calls
        /\ send_calls' = after.send_calls
        /\ result' = [op |-> "replay", args |-> <<operations>>,
                      raised |-> after.raised, value |-> None]
        /\ UNCHANGED <<_recorder, state, file, called>>

-----------------------------------------------------------------------------
(* Recording and replaying: a run either records at most MaxCalls driver    *)
(* calls while the clock runs, stops and replays what stop_recording        *)
(* returned on a driver whose adapter accepts every frame, or replays a     *)
(* list of its own on a driver whose adapter accepts `budget` frames.       *)

MaxCalls == 2       \* the driver calls a run of SpecReplay records

Calling == _recording /\ Len(called) < MaxCalls

\* the operations of the lists replayed as given; sleeping -1 s fails
ReplaySample ==
    {KeyDownOperation(member(KeyCodeBody, "KEY_H"), TRUE, FALSE, FALSE, TRUE),
     KeyUpOperation,
     MouseButtonDownOperation(member(MouseButtonBody, "BTN_LEFT")),
     MouseScrollOperation(200),
     DelayOperation(2),
     DelayOperation(0 - 1000)}

NextReplay ==
    \/ _recording /\ now < MaxTime /\ Tick
    \/ Fresh /\ start_recording
    \/ /\ Calling
       /\ \E shift \in BOOLEAN :
              key_down(member(KeyCodeBody, "KEY_YEN"), shift, FALSE, FALSE, TRUE, 1)
    \/ Calling /\ key_up(1)
    \/ /\ Calling
       /\ \E button \in MouseButton \ {member(MouseButtonBody, "BTN_LEFT")} :
              mouse_button_down(button, 1)
    \/ Calling /\ mouse_button_up(1)
    \/ Calling /\ \E x \in {0 - 1, 960} : mouse_move_absolute(x, 540, 1)
    \/ Calling /\ mouse_move_relative(0 - 129, 0 - 7, 1)
    \/ Calling /\ mouse_scroll(200, 1)
    \/ Calling /\ media_key_down(member(MediaKeyBody, "MUTE"), 1)
    \/ Calling /\ media_key_up(1)
    \/ _recording /\ stop_recording
    \/ /\ result.op = "stop_recording"
       /\ replay(returned[1].items, Len(returned[1].items))
    \/ /\ Fresh
       /\ \E operations \in SeqsUpTo(ReplaySample, MaxCalls + 1),
             budget \in 0..(MaxCalls + 1) :
              replay(operations, budget)

SpecReplay == InitLog /\ [][NextReplay]_vars

\* the call operation.execute makes, as the specification has it
CallOf(operation) ==
    CASE operation.class = "KeyDownOperation" ->
             [method |-> "key_down",
              args |-> <<operation.key, operation.shift, operation.ctrl,
                         operation.alt, operation.windows>>]
      [] operation.class = "KeyUpOperation" -> [method |-> "key_up", args |-> <<>>]
      [] operation.class = "MouseButtonDownOperation" ->
             [method |-> "mouse_button_down", args |-> <<operation.button>>]
      [] operation.class = "MouseButtonUpOperation" ->
             [method |-> "mouse_button_up", args |-> <<>>]
      [] operation.class = "MediaKeyDownOperation" ->
             [method |-> "media_key_down", args |-> <<operation.key>>]
      [] operation.class = "MediaKeyUpOperation" ->
             [method |-> "media_key_up", args |-> <<>>]
      [] operation.class = "MouseMoveAbsoluteOperation" ->
             [method |-> "mouse_move_absolute", args |-> <<operation.x, operation.y>>]
      [] operation.class = "MouseMoveRelativeOperation" ->
             [method |-> "mouse_move_relative", args |-> <<operation.x, operation.y>>]
      [] operation.class = "MouseScrollOperation" ->
             [method |-> "mouse_scroll", args |-> <<operation.amount>>]
      [] operation.class = "DelayOperation" ->
             [method |-> "sleep", args |-> <<operation.seconds>>]

SameCall(a, b) == a.method = b.method /\ a.args = b.args

IsSleep(call) == call.method = "sleep"

NotSleep(call) == call.method # "sleep"

\* the sleeps that come right before each driver call of a replay, as the
\* sequence of their lengths, one sequence per driver call
RECURSIVE SleepsBefore(_, _)
SleepsBefore(calls, pending) ==
    IF calls = <<>> THEN <<>>
    ELSE IF IsSleep(Head(calls))
         THEN SleepsBefore(Tail(calls), Append(pending, Head(calls).args[1]))
    ELSE <<pending>> \o SleepsBefore(Tail(calls), <<>>)

\* C14: the replay of the list stop_recording returned for N driver calls
\* made while recording makes the same N driver calls, in the same order with
\* the same arguments, and sleeps between two consecutive calls exactly
\* where the gap between them was above 1 ms, for the length of the gap.
C14_ReplayFidelity ==
    (/\ result.op = "replay"
     /\ returned # None
     /\ result.args[1] = returned[1].items) =>
        LET driver_calls == SelectSeq(replayed, NotSleep)
            sleeps == SleepsBefore(replayed, <<>>)
        IN  /\ result.raised = "None"
            /\ Len(driver_calls) = Len(called)
            /\ \A i \in DOMAIN called : SameCall(driver_calls[i], called[i])
            /\ \A i \in 2..Len(called) :
                   LET gap == called[i].time - called[i - 1].time
                   IN  sleeps[i] = IF gap > 1 THEN <<gap>> ELSE <<>>

\* two calls recorded 2 ms apart, the first with modifier flags, replayed
C14_Witness ==
    /\ result.op = "replay"
    /\ returned # None
    /\ result.args[1] = returned[1].items
    /\ Len(called) = 2
    /\ called[1].method = "key_down"
    /\ called[1].args[2]
    /\ called[2].time - called[1].time = 2
    /\ Len(replayed) >= 3

\* the frames a replay adds to those sent
Executed == Len(sent') - Len(sent)

\* C15: replay executes the operations in list order, each once; when the
\* k-th fails the failure reaches the caller, operations 1..k-1 have been
\* executed and none after the k-th is.
C15_ReplayOrder ==
    [][(result.op # "replay" /\ result'.op = "replay") =>
          LET operations == result'.args[1]
              k == Len(replayed')
              done == IF result'.raised = "None" THEN k ELSE k - 1
          IN  /\ k <= Len(operations)
              /\ \A i \in 1..k : SameCall(replayed'[i], CallOf(operations[i]))
              /\ result'.raised = "None" => k = Len(operations)
              /\ result'.raised # "None" => k >= 1
              /\ Executed =
                     Cardinality({i \in 1..done : NotSleep(replayed'[i])})
              /\ now' - now = sum(SelectSeq([i \in 1..done |->
                                     IF IsSleep(replayed'[i])
                                     THEN replayed'[i].args[1] ELSE 0],
                                  LAMBDA n : TRUE))]_vars

\* a replay of three operations whose second failed in the adapter
C15_Witness ==
    /\ result.op = "replay"
    /\ result.raised = "AdapterError"
    /\ Len(result.args[1]) = 3
    /\ Len(replayed) = 2
    /\ Len(sent) = 1

-----------------------------------------------------------------------------
(* write_string on texts that hold a character the table lacks *)

Unsupported(text) == \E i \in DOMAIN text : text[i] \notin DOMAIN _CHARACTER_MAP

\* C21: when write_string is given a text with a character that has no entry
\* in the character table, the 'Unsupported character' error reaches the
\* caller and no frame for any character of that text has been sent.
C21_NoPartialWrite ==
    (result.op = "write_string" /\ Unsupported(result.args[1])) =>
        /\ result.raised \notin {"AdapterError", "UnsupportedEvdevCodeError"} =>
               result.raised = "ValueError"
        /\ result.raised = "ValueError" => sent = <<>>

-----------------------------------------------------------------------------
(* A send the adapter refuses, in one call of the driver (SpecCall) *)

\* the methods that are a down call then an up call
PressMethods == {"press_key", "mouse_click", "press_media_key"}

DownClasses == {"KeyDownOperation", "MouseButtonDownOperation", "MediaKeyDownOperation"}

\* the adapter refused a send of the call: it was called more often than it
\* accepted a frame
Refused == result.op \in DriverMethods /\ send_calls > Len(sent)

\* C22: when the adapter's send fails during a driver call, the adapter's
\* error reaches the caller as it is, send is not called again (the refused
\* call is the last and the only refused one), and no operation is logged for
\* the call that failed; for press_key, mouse_click and press_media_key a
\* refused press frame means that the release frame is never sent, and a
\* refused release frame leaves the Down operation of the press alone in the
\* log.
C22_SendFailure ==
    /\ Refused =>
         /\ result.raised = "AdapterError"
         /\ send_calls = Len(sent) + 1
         /\ result.op \notin PressMethods => _operations = <<>>
         /\ result.op \in PressMethods =>
              /\ Len(sent) <= 1
              /\ Len(sent) = 0 => send_calls = 1 /\ _operations = <<>>
              /\ Len(sent) = 1 =>
                   IF _recorder /\ _recording
                   THEN Len(_operations) = 1 /\ _operations[1].class \in DownClasses
                   ELSE _operations = <<>>
    /\ (result.op \in DriverMethods /\ result.raised = "AdapterError") => Refused

\* press_key whose release the adapter refused, while recording
C22_Witness ==
    /\ result.op = "press_key"
    /\ result.raised = "AdapterError"
    /\ Len(sent) = 1
    /\ send_calls = 2
    /\ _recorder /\ _recording
    /\ Len(_operations) = 1

-----------------------------------------------------------------------------
(* mouse_move_absolute: the scaling of pixels and the codec's clamp *)

\* the x and the y that a frame of build_mouse_abs_packet carries
FrameX(frame) == frame[8] + 256 * frame[9]

FrameY(frame) == frame[10] + 256 * frame[11]

\* C23: for every pixel x in 0..screen_width and y in 0..screen_height, the
\* device coordinates mouse_move_absolute computes, the integer parts of
\* 4096*x/screen_width and 4096*y/screen_height, are within 0..4095, so that
\* the frame carries them as computed, unchanged by the codec's clamp; pixel
\* (0, 0) is sent as device (0, 0).
C23_ScalingInRange ==
    (/\ result.op = "mouse_move_absolute"
     /\ result.args[1] \in 0.._screen_width
     /\ result.args[2] \in 0.._screen_height) =>
        LET device_x == device_coordinate(result.args[1], _screen_width)
            device_y == device_coordinate(result.args[2], _screen_height)
        IN  /\ device_x \in 0..4095
            /\ device_y \in 0..4095
            /\ result.raised = "None" =>
                 /\ FrameX(sent[1]) = device_x
                 /\ FrameY(sent[1]) = device_y
                 /\ result.args = <<0, 0>> => FrameX(sent[1]) = 0 /\ FrameY(sent[1]) = 0

-----------------------------------------------------------------------------
(* SpecMapping: get_key_mapping applied to one string, and the translations *)
(* write_string then makes of the pair it returned                          *)

\* the strings get_key_mapping is tried on: every key of the table, the
\* printable characters it lacks, the empty string and a string of two letters
MappingArgs == DOMAIN _CHARACTER_MAP \cup {"*", ":", "\"", "", "ab"}

key_mapping(char) ==
    Applies("get_key_mapping", <<char>>, get_key_mapping(char))

Mapped == result.op = "get_key_mapping" /\ result.raised = "None"

NextMapping ==
    \/ Fresh /\ \E char \in MappingArgs : key_mapping(char)
    \/ Mapped /\ to_usb_hid_keyboard(result.value[2])
    \/ Mapped /\ result.value[1] # 0 /\ to_usb_hid_modifier(result.value[1])

SpecMapping == InitCodec /\ [][NextMapping]_vars

\* C24: for every character get_key_mapping accepts, the modifier of the pair
\* it returns is 0x00 or an evdev code evdev_to_usb_hid_modifier translates
\* and the keycode is an evdev code evdev_to_usb_hid_keyboard translates, so
\* that write_string raises no unsupported-code error on it; an upper-case
\* letter maps to left shift with the key code of its lower-case letter; any
\* other string fails with 'Unsupported character'.
C24_MappingTranslates ==
    result.op = "get_key_mapping" =>
        LET char == result.args[1]
        IN  /\ result.raised \in {"None", "ValueError"}
            /\ char \notin DOMAIN _CHARACTER_MAP => result.raised = "ValueError"
            /\ result.raised = "None" =>
                 /\ \/ result.value[1] = 0
                    \/ evdev_to_usb_hid_modifier(result.value[1]).raised = "None"
                 /\ evdev_to_usb_hid_keyboard(result.value[2]).raised = "None"
                 /\ CH9329Driver_write_string(Self(2), <<char>>).raised = "None"
                 /\ \A i \in DOMAIN letters :
                        char = letters[i][2] =>
                            result.value = <<ecodes.KEY_LEFTSHIFT,
                                             get_key_mapping(letters[i][1]).value[2]>>

-----------------------------------------------------------------------------
(* The codec's clamps and encodings, read back from the frame (SpecCodec) *)

\* a byte read as a signed 8-bit value
decode(b) == IF b < 128 THEN b ELSE b - 256

\* C25: for every x, y in [-128, 127] and scroll in [-127, 127] the bytes of
\* build_mouse_rel_packet decode (b if b < 128 else b - 256) to the inputs, and
\* for every x, y in [0, 4095] the bytes of build_mouse_abs_packet satisfy
\* low + 256 * high = input; clamping is idempotent at both bounds: the values
\* a frame carries, built into a frame again, give the same frame.
C25_InRangeUnchanged ==
    /\ (result.op = "build_mouse_rel_packet" /\ result.raised = "None") =>
         LET frame == result.value
             x == result.args[2]
             y == result.args[3]
             scroll == result.args[4]
         IN  /\ x \in -128..127 => decode(frame[8]) = x
             /\ y \in -128..127 => decode(frame[9]) = y
             /\ scroll \in -127..127 => decode(frame[10]) = scroll
             /\ build_mouse_rel_packet(result.args[1], decode(frame[8]),
                    decode(frame[9]), decode(frame[10])).value = frame
    /\ (result.op = "build_mouse_abs_packet" /\ result.raised = "None") =>
         LET frame == result.value
             x == result.args[2]
             y == result.args[3]
         IN  /\ x \in 0..4095 => FrameX(frame) = x
             /\ y \in 0..4095 => FrameY(frame) = y
             /\ build_mouse_abs_packet(result.args[1], FrameX(frame),
                                       FrameY(frame)).value = frame

\* the relative packet of x = -128 and scroll = -20, both in range and negative
C25_Witness ==
    /\ result.op = "build_mouse_rel_packet"
    /\ result.raised = "None"
    /\ result.args[2] = 0 - 128
    /\ result.args[4] = 0 - 20
    /\ result.value[8] = 128
    /\ result.value[10] = 236

-----------------------------------------------------------------------------
(* A recording session: a driver with a recorder attached, whose owner      *)
(* starts, stops and saves at any time while the driver's methods are       *)
(* called on adapters that accept or refuse, and the clock runs.            *)

MaxFrames == 2      \* frames after which a run of SpecSession calls no method

MaxSpan == 2        \* milliseconds a run of SpecSession lasts

\* the methods are called while the recorder records
Session == _recording /\ Len(sent) < MaxFrames

\* a run drives one device: every frame it sends carries the command `cmd`
Drives(cmd) == Session /\ \A i \in DOMAIN sent : sent[i][4] = cmd

NextSession ==
    \/ _recording /\ now < MaxSpan /\ Tick
    \/ /\ Fresh
       /\ new_KeyboardState({member(ModifierKeyBody, "KEY_LEFTSHIFT")},
                            <<member(KeyCodeBody, "KEY_A")>>)
    \/ result.op # "start_recording" /\ start_recording
    \/ _recording /\ stop_recording
    \/ file = None /\ result.op = "stop_recording" /\ save
    \/ /\ Drives(2)
       /\ \E budget \in 0..1 :
              key_down(member(KeyCodeBody, "KEY_A"), FALSE, FALSE, FALSE, FALSE, budget)
    \/ Drives(2) /\ key_up(1)
    \/ /\ Drives(2)
       /\ \E budget \in 1..2 :
              press_key(member(KeyCodeBody, "KEY_YEN"), FALSE, TRUE, FALSE, FALSE, budget)
    \/ Drives(2) /\ send_keyboard_state(1)
    \/ Drives(2) /\ write_string(<<"A">>, 2)
    \/ Drives(3) /\ media_key_down(member(MediaKeyBody, "MUTE"), 1)
    \/ Drives(3) /\ media_key_up(1)
    \/ /\ Drives(3)
       /\ \E budget \in 1..2 :
              press_media_key(member(MediaKeyBody, "PLAY_PAUSE"), budget)
    \/ Drives(4) /\ \E budget \in 0..1 : mouse_move_absolute(960, 540, budget)
    \/ Drives(5) /\ mouse_move_relative(5, 0 - 3, 1)
    \/ Drives(5) /\ mouse_button_down(member(MouseButtonBody, "BTN_LEFT"), 1)
    \/ Drives(5) /\ mouse_button_up(1)
    \/ /\ Drives(5)
       /\ \E budget \in 1..2 : mouse_click(member(MouseButtonBody, "BTN_RIGHT"), budget)
    \/ Drives(5) /\ mouse_scroll(0 - 3, 1)
    \/ /\ Drives(5)
       /\ result.op \in {"start_recording", "mouse_button_down"}
       /\ new_MouseInput({member(MouseButtonBody, "BTN_LEFT")}, 5, 0, 0 - 1)
    \/ Drives(5) /\ send_mouse_state(1)

SpecSession == InitLog /\ [][NextSession]_vars

\* the entries of `log` are the first entries of `longer`, in place
Extends(longer, log) ==
    /\ Len(longer) >= Len(log)
    /\ SubSeq(longer, 1, Len(log)) = log

\* the class of the operation each method that sends one frame records
RecordedClass ==
    [key_down |-> "KeyDownOperation", key_up |-> "KeyUpOperation",
     mouse_move_absolute |-> "MouseMoveAbsoluteOperation",
     mouse_move_relative |-> "MouseMoveRelativeOperation",
     mouse_button_down |-> "MouseButtonDownOperation",
     mouse_button_up |-> "MouseButtonUpOperation",
     mouse_scroll |-> "MouseScrollOperation",
     media_key_down |-> "MediaKeyDownOperation",
     media_key_up |-> "MediaKeyUpOperation"]

\* C26: the log is append-only within a session: every step but
\* start_recording leaves the entries it finds unchanged and in place, a
\* record(op) while recording adds exactly [op] or [Delay, op] at the end,
\* start_recording empties the log and enters Recording whatever the state
\* was, and stop_recording and save leave the log as it is.
C26_AppendOnly ==
    /\ [][~Extends(_operations', _operations) => start_recording]_vars
    /\ [][(/\ _recording
           /\ Len(sent') = Len(sent) + 1
           /\ result'.op \in DOMAIN RecordedClass) =>
              LET operation == _operations'[Len(_operations')]
              IN  /\ operation.class = RecordedClass[result'.op]
                  /\ \/ _operations' = _operations \o <<operation>>
                     \/ _operations' =
                            _operations \o
                                <<DelayOperation(now - _last_time[1]), operation>>]_vars
    /\ [][start_recording => _operations' = <<>> /\ _recording']_vars
    /\ [][(stop_recording \/ save) => UNCHANGED <<_operations, _last_time>>]_vars

\* start_recording called again while recording, on a log that held the move
\* of the one frame sent: the log is empty and the recorder records
C26_Witness ==
    /\ result.op = "start_recording"
    /\ returned = None
    /\ Len(sent) = 1
    /\ sent[1][4] = 4
    /\ _operations = <<>>
    /\ _recording

-----------------------------------------------------------------------------
(* The enums against the translation tables, checked under SpecCall *)

\* the methods that translate enum members
EnumMethods ==
    {"key_down", "press_key", "send_keyboard_state", "mouse_button_down",
     "mouse_click", "send_mouse_state"}

\* every member of `members` has an entry in `table`, and no two members the
\* same one
OneToOne(members, table) ==
    /\ \A m \in members : m.value \in DOMAIN table
    /\ \A m1, m2 \in members : m1 # m2 => table[m1.value] # table[m2.value]

EnumsTranslate ==
    /\ OneToOne(KeyCode, _EVDEV_TO_USB_HID_KEYBOARD)
    /\ Cardinality(ModifierKey) = 8
    /\ OneToOne(ModifierKey, _EVDEV_TO_USB_HID_MODIFIER)
    /\ \A m \in ModifierKey : _EVDEV_TO_USB_HID_MODIFIER[m.value] \in Bits
    /\ OrOfNativeBits(ModifierKey) = 255
    /\ Cardinality(MouseButton) = 3
    /\ OneToOne(MouseButton, _EVDEV_TO_USB_HID_MOUSE)
    /\ {<<b.name, _EVDEV_TO_USB_HID_MOUSE[b.value]>> : b \in MouseButton} =
           {<<"BTN_LEFT", 1>>, <<"BTN_RIGHT", 2>>, <<"BTN_MIDDLE", 4>>}

\* C27: every member of KeyCode, ModifierKey and MouseButton has an entry in
\* its translation table, so that key_down, send_keyboard_state,
\* mouse_button_down and send_mouse_state (and the press methods built on
\* them) never fail with UnsupportedEvdevCodeError; distinct KeyCode members
\* have distinct scan codes, the eight ModifierKey members eight distinct
\* single bits whose OR is 0xFF, and the three MouseButton members the bits
\* 0x01, 0x02 and 0x04.
C27_EnumsTranslate ==
    /\ EnumsTranslate
    /\ result.op \in EnumMethods => result.raised # "UnsupportedEvdevCodeError"
    /\ (/\ result.op = "send_keyboard_state"
        /\ result.raised = "None"
        /\ result.args[1].modifiers = ModifierKey) => sent[Len(sent)][6] = 255

\* a keyboard state with all eight modifiers and a key, sent
C27_Witness ==
    /\ result.op = "send_keyboard_state"
    /\ result.raised = "None"
    /\ result.args[1].modifiers = ModifierKey
    /\ Len(result.args[1].keys) = 1
    /\ Len(sent) = 1
    /\ sent[1][6] = 255

\* the entries of a log that are no Delay
NonDelay(log) == SelectSeq(log, LAMBDA operation : operation.class # "DelayOperation")

\* the recordable calls a returned call of `method` is made of
RecordableCalls(method) ==
    IF method \in DOMAIN RecordedClass THEN 1
    ELSE IF method \in PressMethods THEN 2
    ELSE 0

\* the recordable calls the returned calls of `calls` are made of
RECURSIVE Recordable(_)
Recordable(calls) ==
    IF calls = <<>> THEN 0
    ELSE RecordableCalls(calls[1].method) + Recordable(Tail(calls))

\* the recordable calls that return in a step: the call itself, the two calls
\* of a press method that returns, its press alone when its release is refused
MadeInStep ==
    IF sent' = sent THEN 0
    ELSE IF result'.raised = "None" THEN RecordableCalls(result'.op)
    ELSE IF result'.op \in PressMethods THEN 1
    ELSE 0

Unrecorded == {"write_string", "send_keyboard_state", "send_mouse_state"}

\* the frames a replay of `log` sends, on a driver of its own with no
\* recorder whose adapter accepts every frame
ReplayFrames(log) ==
    OperationReplayer_replay(
        log, [Self(Len(log)) EXCEPT !.sent = <<>>, !._recorder = FALSE]).sent

\* C29: write_string, send_keyboard_state and send_mouse_state append nothing
\* to the log, also while the attached recorder records: the log and the
\* last-time marker are after the call what they were before, so that the
\* replay of the log sends one frame for each of its operations and none for
\* the frames these calls sent.
C29_NotRecorded ==
    /\ [][(sent' # sent /\ result'.op \in Unrecorded) =>
              /\ _recording
              /\ UNCHANGED <<_operations, _last_time>>
              /\ Len(sent') > Len(sent)
              /\ ReplayFrames(_operations') = ReplayFrames(_operations)]_vars
    /\ [](Len(ReplayFrames(_operations)) = Len(NonDelay(_operations)))
    /\ []((result.op \in Unrecorded /\ result.raised = "None" /\ _recording) =>
              Len(ReplayFrames(_operations)) < Len(sent))

\* "A" written a millisecond after a key_down, while recording: three frames
\* sent, one operation in the log, one frame in its replay
C29_Witness ==
    /\ result.op = "write_string"
    /\ result.raised = "None"
    /\ _recording
    /\ Len(sent) = 3
    /\ Len(_operations) = 1
    /\ _last_time = Some(0)
    /\ now = 1
    /\ Len(ReplayFrames(_operations)) = 1

\* what a step has added at the end of a sequence
Added(after, before) == SubSeq(after, Len(before) + 1, Len(after))

\* C30: every recordable driver method sends its frame before it records its
\* operation: a step adds no more operations to the log than the adapter
\* accepted frames in it, the operations it adds are those of the frames it
\* sent, a refused send adds none, and so the log never holds more operations
\* that are no Delay than frames were sent since start_recording.
C30_SentBeforeRecorded ==
    /\ [][~start_recording =>
              /\ Extends(_operations', _operations)
              /\ Len(NonDelay(_operations')) - Len(NonDelay(_operations))
                     <= Len(sent') - Len(sent)
              /\ _operations' # _operations =>
                     ReplayFrames(Added(_operations', _operations)) = Added(sent', sent)
              /\ (result'.raised = "AdapterError" /\ sent' = sent) =>
                     _operations' = _operations]_vars
    /\ [](Len(NonDelay(_operations)) <= Len(sent))

\* key_down refused by the adapter while recording, after a key_up that was
\* sent and recorded: one frame, one operation
C30_Witness ==
    /\ result.op = "key_down"
    /\ result.raised = "AdapterError"
    /\ _recording
    /\ Len(sent) = 1
    /\ Len(_operations) = 1
    /\ _operations[1].class = "KeyUpOperation"

=============================================================================
